---- MODULE Spec2Model ----
(***************************************************************************)
(* Telegram archive bot: the archival pipeline (modules/message_handler),  *)
(* the source / user / permission tables (modules/db_handler schema,       *)
(* modules/archive_manager, modules/user_manager) and the search flow      *)
(* (modules/search_manager).                                               *)
(*                                                                         *)
(* Modelling conventions                                                   *)
(*  - A table is a sequence of rows; the AUTO_INCREMENT id of a row is its *)
(*    index (no flow of the bot deletes a row of these tables).            *)
(*  - A nullable column / an optional dict key is <<>> (NULL, None, key    *)
(*    absent) or <<v>>.                                                    *)
(*  - A string is a sequence of one-character strings.                     *)
(*  - The messaging transport (bot.send_message, answer_callback_query,    *)
(*    edit_message_text ...) is an external collaborator: outbound calls   *)
(*    are taken to return normally and leave the modelled state alone;     *)
(*    so is obtaining the transport handle (telebot.TeleBot.__self__,      *)
(*    self.bot).                                                           *)
(*    What a handler shows to the user is recorded in the history variable *)
(*    last, which no operation reads.                                      *)
(*  - A database query that fails returns the sentinel of db_handler       *)
(*    (None / []), see ExistingLookup.                                     *)
(***************************************************************************)
EXTENDS Integers, Sequences, FiniteSets, TLC

VARIABLES
    users,              \* table users: user_id -> [is_admin]
    sources,            \* table sources
    permissions,        \* table permissions, UNIQUE (user_id, source_id)
    archived_messages,  \* table archived_messages
    bot_enabled,        \* table config, entry 'bot_enabled'
    backup_logs,        \* table backup_logs
    backup_interval,    \* table config, entry 'backup_interval' (minutes)
    backup_jobs,        \* the scheduler's jobs tagged 'backup'
    process,            \* main.py: "starting", "polling" or "exited"
    selected,           \* history: the source-type button each user pressed
    archive_states,     \* ArchiveManager.user_states
    search_states,      \* SearchManager.user_states
    next_step,          \* transport's register_next_step_handler slot per chat
    last                \* history: the last event handled and what it showed

vars == <<users, sources, permissions, archived_messages, bot_enabled,
          backup_logs, backup_interval, backup_jobs, process, selected,
          archive_states, search_states, next_step, last>>

dbTables == <<users, sources, permissions, archived_messages, bot_enabled>>

wizards == <<archive_states, search_states, next_step>>

scheduling == <<backup_interval, backup_jobs>>

(***************************************************************************)
(* Bounds of the model                                                     *)
(***************************************************************************)
MaxArchived == 3        \* rows of archived_messages
MaxBackups == 3         \* rows of backup_logs
MaxSaved == 2           \* rows of sources where saves follow an edit
MaxSources == 1         \* rows of sources the wizard may reach
MsgIds == {1, 2}        \* external message ids
ChatIds == {1, 2}       \* chat identities of inbound messages

Kinds == {"text", "photo", "video", "document", "audio", "voice", "sticker", "animation"}

None == <<>>
Some(v) == <<v>>
IsSome(o) == o # <<>>

(***************************************************************************)
(* Strings                                                                 *)
(***************************************************************************)
LowerChar(c) ==
    CASE c = "A" -> "a"
      [] c = "C" -> "c"
      [] c = "F" -> "f"
      [] c = "L" -> "l"
      [] c = "O" -> "o"
      [] c = "U" -> "u"
      [] c = "X" -> "x"
      [] OTHER -> c

Lower_CaseSensitive(s) == s

\* str.lower()
Lower(s) == [i \in 1..Len(s) |-> LowerChar(s[i])]

\* needle in hay (Python substring test)
IsSubstr(needle, hay) ==
    \E i \in 0..(Len(hay) - Len(needle)) : SubSeq(hay, i + 1, i + Len(needle)) = needle

Unknown == <<"U", "n", "k", "n", "o", "w", "n">>

(***************************************************************************)
(* modules/message_handler.py                                              *)
(***************************************************************************)
FilterGet_DefaultFalse(filter_config, kind) ==
    IF kind \in DOMAIN filter_config.flags THEN filter_config.flags[kind] ELSE FALSE

\* filter_config.get(kind, True)
FilterGet(filter_config, kind) ==
    IF kind \in DOMAIN filter_config.flags THEN filter_config.flags[kind] ELSE TRUE

IsMessageTypeAllowed(message, filter_config) ==
    ~ \E k \in Kinds : message.content_type = k /\ ~FilterGet(filter_config, k)

IsTopicAllowed_NullAllowsAll(topic_id, source) ==
    LET topics_config == source.topics_config IN
    IF topics_config.is_null \/ topics_config.has_all
    THEN TRUE
    ELSE IsSome(topic_id) /\ topic_id[1] \in topics_config.ids

\* json.loads(source['topics_config']) if source['topics_config'] else None,
\* then "not topics_config", "'all' in topics_config", "topic_id in topics_config"
IsTopicAllowed(topic_id, source) ==
    LET topics_config == source.topics_config IN
    IF topics_config.is_null \/ (~topics_config.has_all /\ topics_config.ids = {})
    THEN FALSE
    ELSE IF topics_config.has_all
         THEN TRUE
         ELSE IsSome(topic_id) /\ topic_id[1] \in topics_config.ids

GetMessageText(message) ==
    IF message.content_type = "text" THEN message.text
    ELSE IF message.caption # <<>> THEN message.caption ELSE <<>>

PassesKeywordFilter(message, filter_config) ==
    LET keywords == filter_config.keywords
        text == GetMessageText(message)
    IN IF keywords = <<>> THEN TRUE
       ELSE IF text = <<>> THEN FALSE
       ELSE \E i \in 1..Len(keywords) : IsSubstr(Lower(keywords[i]), Lower(text))

GetSenderName(message) ==
    IF message.from_user = None THEN Unknown
    ELSE LET user == message.from_user[1]
             withLast == IF IsSome(user.last_name)
                         THEN user.first_name \o <<" ">> \o user.last_name[1]
                         ELSE user.first_name
         IN IF IsSome(user.username)
            THEN withLast \o <<" ", "(", "@">> \o user.username[1] \o <<")">>
            ELSE withLast

\* (media_type, file_id)
GetMediaInfo(message) ==
    IF message.content_type = "text"
    THEN [media_type |-> "text", file_id |-> None]
    ELSE [media_type |-> message.content_type, file_id |-> Some(message.file_id)]

\* the row archive_message writes for a message (id is the row's index)
ArchiveRow(message, source_id) ==
    [source_id     |-> source_id,
     message_id    |-> message.message_id,
     sender_id     |-> IF message.from_user = None THEN 0 ELSE message.from_user[1].id,
     sender_name   |-> GetSenderName(message),
     message_text  |-> GetMessageText(message),
     media_type    |-> GetMediaInfo(message).media_type,
     media_file_id |-> GetMediaInfo(message).file_id,
     topic_id      |-> message.message_thread_id,
     message_date  |-> message.date]

RowsWithKey(table, source_id, message_id) ==
    {i \in 1..Len(table) : table[i].source_id = source_id /\ table[i].message_id = message_id}

\* db.fetch_one("SELECT id FROM archived_messages WHERE source_id = .. AND
\* message_id = .."): the row when the query runs, the sentinel None when the
\* query fails (db_handler.fetch_one returns None on an execute_query error).
ExistingLookup(table, source_id, message_id, query_ok) ==
    query_ok /\ RowsWithKey(table, source_id, message_id) # {}

\* the table after archive_message
ArchiveMessage(table, message, source_id, lookup_ok, write_ok) ==
    IF ~write_ok THEN table
    ELSE IF ExistingLookup(table, source_id, message.message_id, lookup_ok)
    THEN [i \in 1..Len(table) |->
            IF i \in RowsWithKey(table, source_id, message.message_id)
            THEN ArchiveRow(message, source_id) ELSE table[i]]
    ELSE Append(table, ArchiveRow(message, source_id))

ActiveSourcesOf_NullMatches(table, chat_id) ==
    {i \in 1..Len(table) :
        (table[i].chat_id = Some(chat_id) \/ table[i].chat_id = None) /\ table[i].is_active}

ActiveSourcesOf_IgnoreActive(table, chat_id) ==
    {i \in 1..Len(table) : table[i].chat_id = Some(chat_id)}

\* SELECT * FROM sources WHERE chat_id = %s AND is_active = TRUE
\* (a NULL chat_id equals nothing)
ActiveSourcesOf(table, chat_id) ==
    {i \in 1..Len(table) : table[i].chat_id = Some(chat_id) /\ table[i].is_active}

\* process_message after the source lookup: the first failing check, or "archive"
FilterDecision(message, source) ==
    IF ~IsMessageTypeAllowed(message, source.filter_config) THEN "type"
    ELSE IF /\ source.type = "topic_group"
            /\ message.is_topic_message
            /\ ~IsTopicAllowed(message.message_thread_id, source)
         THEN "topic"
    ELSE IF ~PassesKeywordFilter(message, source.filter_config) THEN "keyword"
    ELSE "archive"

Delivered(message, source_id, outcome) ==
    [op |-> "deliver", msg |-> message, source |-> source_id, outcome |-> outcome]

\* handle_all_messages: one inbound message.  source_ok, lookup_ok, write_ok say
\* whether the source lookup, the existence lookup and the INSERT / UPDATE ran
\* or hit a query failure.
HandleAllMessages(message, source_ok, lookup_ok, write_ok) ==
    /\ process = "polling"
    /\ IF message.chat_type = "private"
       THEN /\ last' = Delivered(message, 0, "private")
            /\ UNCHANGED archived_messages
       ELSE IF ~source_ok \/ ActiveSourcesOf(sources, message.chat_id) = {}
       THEN /\ last' = Delivered(message, 0, "no_source")
            /\ UNCHANGED archived_messages
       ELSE \E source_id \in ActiveSourcesOf(sources, message.chat_id) :
              LET decision == FilterDecision(message, sources[source_id]) IN
              IF decision # "archive"
              THEN /\ last' = Delivered(message, source_id, decision)
                   /\ UNCHANGED archived_messages
              ELSE /\ archived_messages' =
                        ArchiveMessage(archived_messages, message, source_id, lookup_ok, write_ok)
                   /\ Len(archived_messages') <= MaxArchived
                   /\ last' = Delivered(message, source_id,
                        IF ~write_ok THEN "write_failed"
                        ELSE IF ExistingLookup(archived_messages, source_id,
                                               message.message_id, lookup_ok)
                             THEN "update" ELSE "insert")
    /\ UNCHANGED <<scheduling, backup_logs, process, selected, users, sources, permissions, bot_enabled, wizards>>

\* the stages of process_message in which an exception can be raised
Stages == {"lookup", "filter", "write"}

HandlerCatches_WriteOnly(stage) == stage = "write"

\* whether an exception raised in the stage meets an "except Exception": the
\* try of handle_all_messages encloses process_message, the try of
\* archive_message encloses the write
HandlerCatches(stage) == stage \in {"lookup", "filter"} \/ stage = "write"

\* handle_all_messages for a message whose processing raises in the given
\* stage: the source lookup (fetch_one reading the cursor), the filter
\* evaluation (json.loads of the stored predicate) or the write
\* (archive_message before its query).  An exception that meets no handler
\* reaches the dispatcher.
HandleAllMessagesRaising(message, stage) ==
    /\ process = "polling"
    /\ message.chat_type # "private"
    /\ stage # "lookup" => ActiveSourcesOf(sources, message.chat_id) # {}
    /\ stage = "write" =>
          \E source_id \in ActiveSourcesOf(sources, message.chat_id) :
              FilterDecision(message, sources[source_id]) = "archive"
    /\ process' = IF HandlerCatches(stage) THEN process ELSE "stopped"
    /\ last' = [op |-> "deliver_raised", msg |-> message, stage |-> stage]
    /\ UNCHANGED <<scheduling, backup_logs, selected, dbTables, wizards>>

(***************************************************************************)
(* modules/user_manager.py, main.py                                        *)
(***************************************************************************)
\* UserManager.is_admin
IsAdmin(user_id) == user_id \in DOMAIN users /\ users[user_id].is_admin

\* main.callback_handler / handle_private_text_messages: the bot-enabled gate
Admitted(user_id) == bot_enabled \/ IsAdmin(user_id)

(***************************************************************************)
(* modules/archive_manager.py                                              *)
(***************************************************************************)
PutState(states, user_id, state) ==
    [u \in DOMAIN states \cup {user_id} |-> IF u = user_id THEN state ELSE states[u]]

EmptySourceData ==
    [type |-> None, chat_id |-> None, chat_username |-> None,
     chat_title |-> None, topics |-> None, filter_config |-> None]

\* main.handle_private_text_messages -> ArchiveManager.start_archive_setup; a
\* text message reaches it only when no next-step handler waits for the chat
StartArchiveSetup(user_id) ==
    /\ Admitted(user_id)
    /\ IsAdmin(user_id)
    /\ next_step[user_id] = "none"
    /\ archive_states' = PutState(archive_states, user_id,
                                  [step |-> "request_source_type",
                                   source_data |-> EmptySourceData])
    /\ selected' = [selected EXCEPT ![user_id] = None]
    /\ last' = [op |-> "start_archive_setup", user |-> user_id]
    /\ UNCHANGED <<scheduling, backup_logs, process, dbTables, search_states, next_step>>

\* the sources table after toggle_source_status(source_id)
ToggleSourceStatus(table, source_id) ==
    IF source_id \in 1..Len(table)
    THEN [table EXCEPT ![source_id].is_active = ~table[source_id].is_active]
    ELSE table

\* callback archive_toggle_<id>: main.callback_handler ->
\* ArchiveManager.handle_callback -> toggle_source_status
ArchiveToggleCallback(user_id, source_id) ==
    /\ Admitted(user_id)
    /\ user_id \in DOMAIN archive_states
    /\ sources' = ToggleSourceStatus(sources, source_id)
    /\ last' = [op |-> "archive_toggle", user |-> user_id, source |-> source_id]
    /\ UNCHANGED <<scheduling, backup_logs, process, selected, users, permissions, archived_messages, bot_enabled, wizards>>

(***************************************************************************)
(* modules/user_manager.py: permissions                                    *)
(***************************************************************************)
\* SELECT * FROM permissions WHERE user_id = %s AND source_id = %s
PermissionOf(table, source_id, user_id) ==
    {p \in table : p.user_id = user_id /\ p.source_id = source_id}

\* the permissions table after toggle_user_permission(source_id, user_id): an
\* existing row is toggled, otherwise a row with can_search = TRUE is inserted
\* (the INSERT is refused by the FOREIGN KEYs for an unknown user or source)
ToggleUserPermission(table, source_id, user_id) ==
    IF PermissionOf(table, source_id, user_id) # {}
    THEN {IF p \in PermissionOf(table, source_id, user_id)
          THEN [p EXCEPT !.can_search = ~p.can_search] ELSE p : p \in table}
    ELSE IF user_id \in DOMAIN users /\ source_id \in 1..Len(sources)
         THEN table \cup {[user_id |-> user_id, source_id |-> source_id, can_search |-> TRUE]}
         ELSE table

\* callback user_grant_<source_id>_<user_id>: main.callback_handler ->
\* UserManager.handle_callback -> toggle_user_permission
UserGrantCallback(caller, source_id, user_id) ==
    /\ Admitted(caller)
    /\ permissions' = ToggleUserPermission(permissions, source_id, user_id)
    /\ last' = [op |-> "toggle_permission", caller |-> caller,
                user |-> user_id, source |-> source_id,
                new_status |-> IF PermissionOf(permissions, source_id, user_id) # {}
                               THEN \E p \in PermissionOf(permissions, source_id, user_id) :
                                       ~p.can_search
                               ELSE TRUE]
    /\ UNCHANGED <<scheduling, backup_logs, process, selected, users, sources, archived_messages, bot_enabled, wizards>>

\* the users table after toggle_admin_status(user_id) called by admin_user_id
ToggleAdminStatus(table, admin_user_id, user_id) ==
    IF user_id = admin_user_id \/ user_id \notin DOMAIN table
    THEN table
    ELSE [table EXCEPT ![user_id].is_admin = ~table[user_id].is_admin]

\* callback user_toggle_admin_<user_id>: main.callback_handler ->
\* UserManager.handle_callback -> toggle_admin_status
UserToggleAdminCallback(caller, user_id) ==
    /\ Admitted(caller)
    /\ users' = ToggleAdminStatus(users, caller, user_id)
    /\ last' = [op |-> "toggle_admin", caller |-> caller, user |-> user_id]
    /\ UNCHANGED <<scheduling, backup_logs, process, selected, sources, permissions, archived_messages, bot_enabled, wizards>>

\* callback user_add_admin: the add-admin prompt, answered by the next private
\* text of the chat
UserAddAdminCallback(caller) ==
    /\ Admitted(caller)
    /\ next_step' = [next_step EXCEPT ![caller] = "add_admin"]
    /\ last' = [op |-> "user_add_admin", caller |-> caller]
    /\ UNCHANGED <<scheduling, backup_logs, process, selected, dbTables, archive_states, search_states>>

(***************************************************************************)
(* modules/config_manager.py                                               *)
(***************************************************************************)
\* callback config_toggle_status: main.callback_handler ->
\* ConfigManager.handle_callback
ConfigToggleStatus(user_id) ==
    /\ Admitted(user_id)
    /\ bot_enabled' = ~bot_enabled
    /\ last' = [op |-> "config_toggle_status", user |-> user_id]
    /\ UNCHANGED <<scheduling, backup_logs, process, selected, users, sources, permissions, archived_messages, wizards>>

(***************************************************************************)
(* modules/search_manager.py                                               *)
(***************************************************************************)
\* from_user of a message the bot itself sent (call.message.from_user)
BotId == 0

PageSize == 10

Max(a, b) == IF a >= b THEN a ELSE b

Min(a, b) == IF a <= b THEN a ELSE b

\* str.strip()
RECURSIVE StripLeft(_)
StripLeft(s) == IF s # <<>> /\ Head(s) = " " THEN StripLeft(Tail(s)) ELSE s

RECURSIVE StripRight(_)
StripRight(s) ==
    IF s # <<>> /\ s[Len(s)] = " " THEN StripRight(SubSeq(s, 1, Len(s) - 1)) ELSE s

Strip(s) == StripRight(StripLeft(s))

Digits == <<"0", "1", "2", "3", "4", "5", "6", "7", "8", "9">>

\* str.isdigit()
IsDigit(s) == s # <<>> /\ \A i \in 1..Len(s) : \E d \in 1..10 : Digits[d] = s[i]

DigitValue(c) == (CHOOSE d \in 1..10 : Digits[d] = c) - 1

\* int(s) of a digit string
RECURSIVE StrToInt(_)
StrToInt(s) ==
    IF s = <<>> THEN 0
    ELSE 10 * StrToInt(SubSeq(s, 1, Len(s) - 1)) + DigitValue(s[Len(s)])

\* SQL "value LIKE pattern" (case-insensitive collation; % any run, _ any char)
RECURSIVE LikeMatch(_, _)
LikeMatch(pattern, value) ==
    IF pattern = <<>> THEN value = <<>>
    ELSE IF Head(pattern) = "%"
         THEN LikeMatch(Tail(pattern), value)
              \/ (value # <<>> /\ LikeMatch(pattern, Tail(value)))
         ELSE /\ value # <<>>
              /\ Head(pattern) = "_" \/ LowerChar(Head(pattern)) = LowerChar(Head(value))
              /\ LikeMatch(Tail(pattern), Tail(value))

\* f"%{text}%"
LikePattern(text) == <<"%">> \o text \o <<"%">>

\* filters = {}
EmptyFilters ==
    [text |-> None, date_from |-> None, date_to |-> None, media_type |-> None,
     sender_id |-> None, sender_name |-> None, topic_id |-> None]

\* 'k' in filters and filters['k'], for a string value
TruthyStr(o) == IsSome(o) /\ o[1] # <<>>

\* 'k' in filters and filters['k'], for an integer value
TruthyInt(o) == IsSome(o) /\ o[1] # 0

\* the WHERE clause search_messages builds, without the source_id term
MatchesFilters(row, filters) ==
    /\ TruthyStr(filters.text) =>
           LikeMatch(LikePattern(filters.text[1]), row.message_text)
    /\ IsSome(filters.date_from) => row.message_date >= filters.date_from[1]
    /\ IsSome(filters.date_to) => row.message_date <= filters.date_to[1]
    /\ IsSome(filters.media_type) => row.media_type = filters.media_type[1]
    /\ IF TruthyInt(filters.sender_id)
       THEN row.sender_id = filters.sender_id[1]
       ELSE TruthyStr(filters.sender_name) =>
                LikeMatch(LikePattern(filters.sender_name[1]), row.sender_name)
    /\ (IsSome(filters.topic_id) /\ ~filters.topic_id[1].is_all) =>
           row.topic_id = Some(filters.topic_id[1].id)

\* a fetched row of archived_messages: the columns and the row's id
FetchedRow(table, i) == [id |-> i] @@ table[i]

\* ORDER BY message_date DESC: every order of the ids that is descending by
\* date (rows of equal date come in any order)
RECURSIVE DescOrders(_, _)
DescOrders(table, ids) ==
    IF ids = {} THEN {<<>>}
    ELSE LET top == {i \in ids : \A j \in ids : table[j].message_date <= table[i].message_date}
         IN UNION {{<<FetchedRow(table, i)>> \o rest : rest \in DescOrders(table, ids \ {i})} :
                      i \in top}

\* search_messages(source_id, filters): the result lists the query can return
SearchMessages(table, source_id, filters) ==
    DescOrders(table, {i \in 1..Len(table) :
                          table[i].source_id = source_id /\ MatchesFilters(table[i], filters)})

\* get_accessible_sources(user_id), as source ids
AccessibleSources_IgnoreCanSearch(user_id) ==
    IF IsAdmin(user_id)
    THEN {i \in 1..Len(sources) : sources[i].is_active}
    ELSE {i \in 1..Len(sources) :
            /\ sources[i].is_active
            /\ \E p \in permissions : p.user_id = user_id /\ p.source_id = i}

AccessibleSources(user_id) ==
    IF IsAdmin(user_id)
    THEN {i \in 1..Len(sources) : sources[i].is_active}
    ELSE {i \in 1..Len(sources) :
            /\ sources[i].is_active
            /\ \E p \in permissions :
                  p.user_id = user_id /\ p.source_id = i /\ p.can_search}

\* start_search: user_states[user_id] = {'step': 'select_source', 'filters': {}}
FreshSearchState ==
    [step |-> "select_source", filters |-> EmptyFilters, source_id |-> None,
     results |-> None, page |-> None]

\* total_pages = (len(results) + page_size - 1) // page_size
TotalPages(results) == (Len(results) + PageSize - 1) \div PageSize

ClampPage_NoLowerBound(page, total_pages) == Min(page, total_pages)

\* page = max(1, min(page, total_pages))
ClampPage(page, total_pages) == Max(1, Min(page, total_pages))

\* a slice bound as Python reads it: negative counts from the end, then clipped
SliceIndex(list, i) == IF i < 0 THEN Max(0, Len(list) + i) ELSE Min(i, Len(list))

\* list[start:end]
Slice(list, start, end) ==
    IF SliceIndex(list, start) < SliceIndex(list, end)
    THEN SubSeq(list, SliceIndex(list, start) + 1, SliceIndex(list, end))
    ELSE <<>>

\* results[start_idx:end_idx] of show_search_results
PageResults(results, page) ==
    LET start_idx == (page - 1) * PageSize
        end_idx == Min(start_idx + PageSize, Len(results))
    IN Slice(results, start_idx, end_idx)

HeldResults_Requery(state) ==
    IF state.source_id = None THEN <<>>
    ELSE CHOOSE results \in
            SearchMessages(archived_messages, state.source_id[1], state.filters) : TRUE

\* user_states[user_id].get('results', [])
HeldResults(state) == IF IsSome(state.results) THEN state.results[1] ELSE <<>>

\* handle_callback: "user_id not in self.user_states" answer
SearchRejected(user_id) == [op |-> "search_rejected", user |-> user_id]

\* the private text "search in archive": main.handle_private_text_messages ->
\* start_search.  A pending next-step handler of the chat takes the text instead.
StartSearch(user_id) ==
    /\ Admitted(user_id)
    /\ next_step[user_id] = "none"
    /\ search_states' = PutState(search_states, user_id, FreshSearchState)
    /\ last' = [op |-> "start_search", user |-> user_id,
                offered |-> AccessibleSources(user_id)]
    /\ UNCHANGED <<scheduling, backup_logs, process, selected, dbTables, archive_states, next_step>>

\* callback search_source_<id>: handle_callback -> select_source
SelectSource(user_id, source_id) ==
    /\ Admitted(user_id)
    /\ IF user_id \notin DOMAIN search_states
       THEN /\ last' = SearchRejected(user_id)
            /\ UNCHANGED search_states
       ELSE /\ search_states' = [search_states EXCEPT
                                    ![user_id].source_id = Some(source_id),
                                    ![user_id].step = "select_filters"]
            /\ last' = [op |-> "select_source", user |-> user_id, source |-> source_id,
                        found |-> source_id \in 1..Len(sources)]
    /\ UNCHANGED <<scheduling, backup_logs, process, selected, dbTables, archive_states, next_step>>

\* callback search_filter_<type>: handle_callback -> select_filter
SelectFilter(user_id, filter_type) ==
    /\ Admitted(user_id)
    /\ IF user_id \notin DOMAIN search_states
       THEN /\ last' = SearchRejected(user_id)
            /\ UNCHANGED next_step
       ELSE IF filter_type \in {"text", "sender"}
       THEN /\ next_step' = [next_step EXCEPT ![user_id] = filter_type]
            /\ last' = [op |-> "select_filter", user |-> user_id, filter |-> filter_type]
       ELSE IF filter_type = "topic" /\ search_states[user_id].source_id = None
       THEN /\ last' = [op |-> "search_error", user |-> user_id]
            /\ UNCHANGED next_step
       ELSE /\ last' = [op |-> "select_filter", user |-> user_id, filter |-> filter_type]
            /\ UNCHANGED next_step
    /\ UNCHANGED <<scheduling, backup_logs, process, selected, dbTables, archive_states, search_states>>

\* the next-step handler process_text_filter
ProcessTextFilter(user_id, input) ==
    LET text == Strip(input) IN
    IF Len(text) < 2
    THEN /\ last' = [op |-> "text_filter", user |-> user_id, accepted |-> FALSE]
         /\ UNCHANGED <<scheduling, backup_logs, process, selected, dbTables, archive_states, search_states, next_step>>
    ELSE /\ search_states' = [search_states EXCEPT ![user_id].filters.text = Some(text)]
         /\ next_step' = [next_step EXCEPT ![user_id] = "none"]
         /\ last' = [op |-> "text_filter", user |-> user_id, accepted |-> TRUE]
         /\ UNCHANGED <<scheduling, backup_logs, process, selected, dbTables, archive_states>>

\* the next-step handler process_sender_filter
ProcessSenderFilter(user_id, input) ==
    LET sender == Strip(input) IN
    /\ search_states' =
          IF IsDigit(sender)
          THEN [search_states EXCEPT ![user_id].filters.sender_id = Some(StrToInt(sender))]
          ELSE [search_states EXCEPT ![user_id].filters.sender_name = Some(sender)]
    /\ next_step' = [next_step EXCEPT ![user_id] = "none"]
    /\ last' = [op |-> "sender_filter", user |-> user_id]
    /\ UNCHANGED <<scheduling, backup_logs, process, selected, dbTables, archive_states>>

\* a private text while a next-step handler of the search wizard is registered
\* for the chat
TextInput(user_id, input) ==
    /\ next_step[user_id] \in {"text", "sender"}
    /\ IF next_step[user_id] = "text"
       THEN ProcessTextFilter(user_id, input)
       ELSE ProcessSenderFilter(user_id, input)

\* callback search_execute: handle_callback -> execute_search ->
\* search_messages, show_search_results(page = 1)
ExecuteSearch(user_id) ==
    /\ Admitted(user_id)
    /\ IF user_id \notin DOMAIN search_states
       THEN /\ last' = SearchRejected(user_id)
            /\ UNCHANGED search_states
       ELSE IF search_states[user_id].source_id = None
       THEN /\ last' = [op |-> "search_error", user |-> user_id]
            /\ UNCHANGED search_states
       ELSE LET source_id == search_states[user_id].source_id[1]
                filters == search_states[user_id].filters
            IN \E results \in SearchMessages(archived_messages, source_id, filters) :
                 LET page == IF results = <<>> THEN 1
                             ELSE ClampPage(1, TotalPages(results))
                 IN /\ search_states' = [search_states EXCEPT
                                            ![user_id].results = Some(results),
                                            ![user_id].page = Some(page)]
                    /\ last' = [op |-> "search_results", user |-> user_id,
                                executed |-> TRUE, requested |-> 1,
                                shown |-> PageResults(results, page)]
    /\ UNCHANGED <<scheduling, backup_logs, process, selected, dbTables, archive_states, next_step>>

\* callback search_page_<n>: handle_callback -> show_search_results(page = n);
\* request is None for a non-numeric suffix (search_page_current)
ShowSearchResults(user_id, request) ==
    /\ Admitted(user_id)
    /\ IF user_id \notin DOMAIN search_states
       THEN /\ last' = SearchRejected(user_id)
            /\ UNCHANGED search_states
       ELSE IF request = None
       THEN /\ last' = [op |-> "search_error", user |-> user_id]
            /\ UNCHANGED search_states
       ELSE LET results == HeldResults(search_states[user_id])
                page == ClampPage(request[1], TotalPages(results))
            IN IF results = <<>>
               THEN /\ last' = [op |-> "search_results", user |-> user_id,
                                executed |-> FALSE, requested |-> request[1],
                                shown |-> <<>>]
                    /\ UNCHANGED search_states
               ELSE /\ search_states' = [search_states EXCEPT ![user_id].page = Some(page)]
                    /\ last' = [op |-> "search_results", user |-> user_id,
                                executed |-> FALSE, requested |-> request[1],
                                shown |-> PageResults(results, page)]
    /\ UNCHANGED <<scheduling, backup_logs, process, selected, dbTables, archive_states, next_step>>

\* callback search_result_<id>: handle_callback -> show_result_details
ShowResultDetails(user_id, result_id) ==
    /\ Admitted(user_id)
    /\ last' = IF result_id \in 1..Len(archived_messages)
               THEN [op |-> "result_details", user |-> user_id, found |-> TRUE,
                     row |-> FetchedRow(archived_messages, result_id)]
               ELSE [op |-> "result_details", user |-> user_id, found |-> FALSE]
    /\ UNCHANGED <<scheduling, backup_logs, process, selected, dbTables, wizards>>

\* callback search_export: handle_callback -> export_search_results
ExportSearchResults(user_id) ==
    /\ Admitted(user_id)
    /\ last' = IF user_id \notin DOMAIN search_states
               THEN SearchRejected(user_id)
               ELSE [op |-> "search_export", user |-> user_id,
                     exported |-> HeldResults(search_states[user_id])]
    /\ UNCHANGED <<scheduling, backup_logs, process, selected, dbTables, wizards>>

\* callback search_new: handle_callback -> start_search(call.message), whose
\* from_user is the bot
SearchNew(user_id) ==
    /\ Admitted(user_id)
    /\ IF user_id \notin DOMAIN search_states
       THEN /\ last' = SearchRejected(user_id)
            /\ UNCHANGED search_states
       ELSE /\ search_states' = PutState(search_states, BotId, FreshSearchState)
            /\ last' = [op |-> "search_new", user |-> user_id,
                        offered |-> AccessibleSources(BotId)]
    /\ UNCHANGED <<scheduling, backup_logs, process, selected, dbTables, archive_states, next_step>>

(***************************************************************************)
(* modules/user_manager.py: the add-admin prompt                           *)
(***************************************************************************)
\* the users table after process_add_admin accepted the id user_id: an existing
\* user is made admin, an unknown id is inserted as admin
AddAdmin(table, user_id) ==
    IF user_id \in DOMAIN table
    THEN [table EXCEPT ![user_id].is_admin = TRUE]
    ELSE [u \in DOMAIN table \cup {user_id} |->
            IF u = user_id THEN [is_admin |-> TRUE] ELSE table[u]]

\* the next-step handler process_add_admin
ProcessAddAdmin(caller, input) ==
    LET user_id_text == Strip(input) IN
    /\ next_step[caller] = "add_admin"
    /\ IF ~IsDigit(user_id_text)
       THEN /\ last' = [op |-> "add_admin", caller |-> caller, accepted |-> FALSE]
            /\ UNCHANGED <<users, next_step>>
       ELSE /\ users' = AddAdmin(users, StrToInt(user_id_text))
            /\ next_step' = [next_step EXCEPT ![caller] = "none"]
            /\ last' = [op |-> "add_admin", caller |-> caller, accepted |-> TRUE,
                        user |-> StrToInt(user_id_text)]
    /\ UNCHANGED <<scheduling, backup_logs, process, selected, sources, permissions, archived_messages, bot_enabled,
                   archive_states, search_states>>

(***************************************************************************)
(* modules/archive_manager.py: the setup wizard                            *)
(***************************************************************************)
\* show_filter_options: the filter predicate a new wizard starts from
DefaultFilterConfig ==
    [flags |-> [k \in Kinds |-> TRUE], keywords |-> <<>>]

\* save_archive_settings: topics_config = 'null'
NullTopics == [is_null |-> TRUE, has_all |-> FALSE, ids |-> {}]

\* a row of sources with the given columns (is_active DEFAULT TRUE), titled
\* "src", without a username, added by user 1
SourceRow(type, chat_id, filter_config, topics_config) ==
    [type |-> type, chat_id |-> chat_id, chat_title |-> <<"s", "r", "c">>,
     chat_username |-> <<>>, is_active |-> TRUE,
     filter_config |-> filter_config, topics_config |-> topics_config,
     added_by |-> 1]

PlainSource(chat_id) == SourceRow("supergroup", chat_id, DefaultFilterConfig, NullTopics)

\* the values the column sources.type admits
SourceTypes == {"channel", "group", "supergroup", "topic_group"}

MinTitle == 3

MaxTitle == 100

\* what one handler leaves behind: ArchiveManager.user_states, the chat's
\* next-step slot, the sources table, and what the handler did
Effect(states, next, table, outcome) ==
    [states |-> states, next |-> next, sources |-> table, outcome |-> outcome]

\* seq[-1]
Last(seq) == seq[Len(seq)]

\* str.startswith
StartsWith(s, prefix) ==
    Len(s) >= Len(prefix) /\ SubSeq(s, 1, Len(prefix)) = prefix

\* s.split(sep)[-1]
AfterLast(s, sep) ==
    IF \E i \in 1..Len(s) : s[i] = sep
    THEN LET i == CHOOSE i \in 1..Len(s) :
                      s[i] = sep /\ \A j \in (i + 1)..Len(s) : s[j] # sep
         IN  SubSeq(s, i + 1, Len(s))
    ELSE s

\* s.split(sep)
RECURSIVE Split(_, _)
Split(s, sep) ==
    IF \E i \in 1..Len(s) : s[i] = sep
    THEN LET i == CHOOSE i \in 1..Len(s) :
                      s[i] = sep /\ \A j \in 1..(i - 1) : s[j] # sep
         IN  <<SubSeq(s, 1, i - 1)>> \o Split(SubSeq(s, i + 1, Len(s)), sep)
    ELSE <<s>>

\* int(token) of the last part of a callback payload; other tokens raise
\* ValueError
TokenInt == ("0" :> 0) @@ ("1" :> 1) @@ ("2" :> 2) @@ ("3" :> 3)

HttpsPrefix == <<"h", "t", "t", "p", "s", ":", "/", "/", "t", ".", "m", "e", "/">>

\* show_filter_options(message) for message.from_user.id = user_id; a user
\* without wizard state raises KeyError
ShowFilterOptions(states, user_id) ==
    IF user_id \notin DOMAIN states THEN states
    ELSE [states EXCEPT
            ![user_id].step = "select_filters",
            ![user_id].source_data.filter_config =
                IF IsSome(@) THEN @ ELSE Some(DefaultFilterConfig)]

\* handle_source_type_selection: the type is the payload's last part
HandleSourceTypeSelection(states, table, user_id, data) ==
    Effect([states EXCEPT ![user_id].source_data.type = Some(Last(data)),
                          ![user_id].step = "request_source_link"],
           "source_link", table, "handled")

\* the next-step handler process_source_link
ProcessSourceLink(states, table, user_id, input) ==
    LET link == Strip(input)
        Accept(field, value) ==
            IF user_id \notin DOMAIN states
            THEN Effect(states, "none", table, "error")
            ELSE Effect([states EXCEPT
                           ![user_id].source_data[field] = Some(value),
                           ![user_id].step = "request_source_title"],
                        "source_title", table, "accepted")
    IN  IF StartsWith(link, HttpsPrefix)
        THEN Accept("chat_username", AfterLast(link, "/"))
        ELSE IF StartsWith(link, <<"@">>)
        THEN Accept("chat_username", Tail(link))
        ELSE IF StartsWith(link, <<"-", "1", "0", "0">>)
                /\ IsDigit(SubSeq(link, 5, Len(link)))
        THEN Accept("chat_id", 0 - StrToInt(Tail(link)))
        ELSE Effect(states, "source_link", table, "rejected")

\* the next-step handler process_source_title
ProcessSourceTitle(states, table, user_id, input) ==
    LET title == Strip(input) IN
    IF Len(title) < MinTitle \/ Len(title) > MaxTitle
    THEN Effect(states, "source_title", table, "rejected")
    ELSE IF user_id \notin DOMAIN states
    THEN Effect(states, "none", table, "error")
    ELSE LET titled == [states EXCEPT ![user_id].source_data.chat_title = Some(title)]
             type == titled[user_id].source_data.type
         IN  IF type = None
             THEN Effect(titled, "none", table, "error")
             ELSE IF type = Some("topic_group")
             THEN Effect([titled EXCEPT ![user_id].step = "request_topics"],
                         "topics", table, "accepted")
             ELSE Effect(ShowFilterOptions(titled, user_id), "none", table, "accepted")

ProcessTopics_NoReprompt(states, table, user_id, input) ==
    Effect(states, "none", table, "rejected")

\* the next-step handler process_topics
ProcessTopics(states, table, user_id, input) ==
    LET topics_input == Lower(Strip(input))
        parts == Split(topics_input, ",")
        ids == {StrToInt(Strip(parts[i])) :
                   i \in {j \in 1..Len(parts) : IsDigit(Strip(parts[j]))}}
        Accept(topics) ==
            IF user_id \notin DOMAIN states
            THEN Effect(states, "none", table, "error")
            ELSE Effect(ShowFilterOptions(
                            [states EXCEPT ![user_id].source_data.topics = Some(topics)],
                            user_id),
                        "none", table, "accepted")
    IN  IF topics_input = <<"a", "l", "l">>
        THEN Accept([is_null |-> FALSE, has_all |-> TRUE, ids |-> {}])
        ELSE IF ids = {}
        THEN Effect(states, "topics", table, "rejected")
        ELSE Accept([is_null |-> FALSE, has_all |-> FALSE, ids |-> ids])

HandleFilterSelection_SwitchOff(states, next, table, user_id, data) ==
    LET filter_type == Last(data) IN
    IF filter_type \in Kinds
    THEN IF states[user_id].source_data.filter_config = None
         THEN Effect(states, next, table, "error")
         ELSE Effect([states EXCEPT
                        ![user_id].source_data.filter_config[1].flags[filter_type] = FALSE],
                     next, table, "handled")
    ELSE IF filter_type = "keywords"
    THEN Effect(states, "keywords", table, "handled")
    ELSE Effect(states, next, table, "ignored")

\* handle_filter_selection
HandleFilterSelection(states, next, table, user_id, data) ==
    LET filter_type == Last(data) IN
    IF filter_type \in Kinds
    THEN IF states[user_id].source_data.filter_config = None
         THEN Effect(states, next, table, "error")
         ELSE Effect([states EXCEPT
                        ![user_id].source_data.filter_config[1].flags[filter_type] = ~@],
                     next, table, "handled")
    ELSE IF filter_type = "keywords"
    THEN Effect(states, "keywords", table, "handled")
    ELSE Effect(states, next, table, "ignored")

\* the next-step handler process_keywords
ProcessKeywords(states, table, user_id, input) ==
    LET keywords_input == Strip(input)
        parts == Split(keywords_input, ",")
        stripped == [i \in 1..Len(parts) |-> Strip(parts[i])]
        keywords == IF Lower(keywords_input) = <<"c", "l", "e", "a", "r">>
                    THEN <<>>
                    ELSE SelectSeq(stripped, LAMBDA k : k # <<>>)
    IN  IF user_id \notin DOMAIN states
        THEN Effect(states, "none", table, "error")
        ELSE IF states[user_id].source_data.filter_config = None
        THEN Effect(states, "none", table, "error")
        ELSE Effect(ShowFilterOptions(
                        [states EXCEPT
                           ![user_id].source_data.filter_config[1].keywords = keywords],
                        user_id),
                    "none", table, "accepted")

InsertedSource_DefaultFilter(source_data, user_id) ==
    [type |-> source_data.type[1],
     chat_id |-> source_data.chat_id,
     chat_title |-> source_data.chat_title[1],
     chat_username |-> IF IsSome(source_data.chat_username)
                       THEN source_data.chat_username[1] ELSE <<>>,
     is_active |-> TRUE,
     filter_config |-> DefaultFilterConfig,
     topics_config |-> NullTopics,
     added_by |-> user_id]

\* the row of the INSERT in save_archive_settings
InsertedSource(source_data, user_id) ==
    [type |-> source_data.type[1],
     chat_id |-> source_data.chat_id,
     chat_title |-> source_data.chat_title[1],
     chat_username |-> IF IsSome(source_data.chat_username)
                       THEN source_data.chat_username[1] ELSE <<>>,
     is_active |-> TRUE,
     filter_config |-> source_data.filter_config[1],
     topics_config |-> IF source_data.type[1] = "topic_group"
                          /\ IsSome(source_data.topics)
                       THEN source_data.topics[1] ELSE NullTopics,
     added_by |-> user_id]

SaveArchiveSettingsQuery_ClearsAlways(states, next, table, user_id, insert_ok) ==
    LET source_data == states[user_id].source_data
        cleared == [u \in DOMAIN states \ {user_id} |-> states[u]]
    IN  IF source_data.chat_title = None \/ source_data.type = None
           \/ source_data.filter_config = None
        THEN Effect(states, next, table, "error")
        ELSE IF source_data.type[1] \in SourceTypes /\ insert_ok
        THEN Effect(cleared, next,
                    Append(table, InsertedSource(source_data, user_id)), "saved")
        ELSE Effect(cleared, next, table, "not_saved")

\* save_archive_settings: a missing title, type or filter predicate raises
\* KeyError; the INSERT returns no cursor when the query fails (insert_ok
\* false) or when the engine refuses a type outside the column's values, and
\* the wizard state is deleted only with a cursor
SaveArchiveSettingsQuery(states, next, table, user_id, insert_ok) ==
    LET source_data == states[user_id].source_data IN
    IF source_data.chat_title = None \/ source_data.type = None
       \/ source_data.filter_config = None
    THEN Effect(states, next, table, "error")
    ELSE IF source_data.type[1] \in SourceTypes /\ insert_ok
    THEN Effect([u \in DOMAIN states \ {user_id} |-> states[u]], next,
                Append(table, InsertedSource(source_data, user_id)), "saved")
    ELSE Effect(states, next, table, "not_saved")

\* save_archive_settings with the INSERT run by the server
SaveArchiveSettings(states, next, table, user_id) ==
    SaveArchiveSettingsQuery(states, next, table, user_id, TRUE)

\* edit_source_settings: the stored settings become the caller's wizard state,
\* then show_filter_options(call.message) runs for the sender of that message,
\* the bot
EditSourceSettings(states, next, table, user_id, source_id) ==
    IF source_id \notin 1..Len(table)
    THEN Effect(states, next, table, "not_found")
    ELSE LET source == table[source_id]
             state == [step |-> "edit_source", source_id |-> source_id,
                       source_data |->
                          [type |-> Some(source.type),
                           chat_id |-> source.chat_id,
                           chat_username |-> Some(source.chat_username),
                           chat_title |-> Some(source.chat_title),
                           topics |-> IF source.topics_config.is_null THEN None
                                      ELSE Some(source.topics_config),
                           filter_config |-> Some(source.filter_config)]]
             edited == PutState(states, user_id, state)
         IN  Effect(ShowFilterOptions(edited, BotId), next, table,
                    IF BotId \in DOMAIN edited THEN "handled" ELSE "error")

DeleteSource_Removes(table, source_id) ==
    LET kept == SelectSeq([i \in 1..Len(table) |-> i], LAMBDA i : i # source_id)
    IN  [j \in 1..Len(kept) |-> table[kept[j]]]

\* the sources table after delete_source(call, source_id), which sends the
\* confirmation keyboard (archive_delete_confirm_<id>, archive_view_<id>)
DeleteSource(table, source_id) == table

SaveData == <<"archive", "save", "settings">>

\* ArchiveManager.handle_callback on the payload split at "_"
ArchiveHandleCallback(states, next, table, user_id, data) ==
    LET tag == IF Len(data) >= 3 THEN data[2] ELSE ""
        id == Last(data)
        Parsed(effect) ==
            IF id \in DOMAIN TokenInt THEN effect
            ELSE Effect(states, next, table, "error")
    IN  IF user_id \notin DOMAIN states /\ tag # "view"
        THEN Effect(states, next, table, "ignored")
        ELSE IF tag = "source"
        THEN HandleSourceTypeSelection(states, table, user_id, data)
        ELSE IF tag = "filter"
        THEN HandleFilterSelection(states, next, table, user_id, data)
        ELSE IF tag = "topic"
        THEN Effect(states, next, table, "error")
        ELSE IF data = SaveData
        THEN SaveArchiveSettings(states, next, table, user_id)
        ELSE IF tag = "view"
        THEN Parsed(Effect(states, next, table, "handled"))
        ELSE IF tag = "toggle"
        THEN Parsed(Effect(states, next, ToggleSourceStatus(table, TokenInt[id]),
                           "handled"))
        ELSE IF tag = "delete"
        THEN Parsed(Effect(states, next, DeleteSource(table, TokenInt[id]), "handled"))
        ELSE IF tag = "edit"
        THEN Parsed(EditSourceSettings(states, next, table, user_id, TokenInt[id]))
        ELSE Effect(states, next, table, "ignored")

\* main.callback_handler on a payload archive_...
ArchiveCallback(user_id, data) ==
    LET handled == ArchiveHandleCallback(archive_states, next_step[user_id],
                                         sources, user_id, data)
    IN  /\ Admitted(user_id)
        /\ Len(data) >= 2 /\ data[1] = "archive"
        /\ data = SaveData => Len(sources) < MaxSources
        /\ archive_states' = handled.states
        /\ next_step' = [next_step EXCEPT ![user_id] = handled.next]
        /\ sources' = handled.sources
        /\ selected' =
              IF data[2] = "source" /\ Len(data) >= 3 /\ handled.outcome = "handled"
              THEN [selected EXCEPT ![user_id] = Some(data)]
              ELSE IF handled.outcome = "saved"
                      \/ (data[2] = "edit" /\ handled.states # archive_states)
              THEN [selected EXCEPT ![user_id] = None]
              ELSE selected
        /\ last' = [op |-> "archive_callback", user |-> user_id, data |-> data,
                    outcome |-> handled.outcome]
        /\ UNCHANGED <<scheduling, backup_logs, process, users, permissions, archived_messages,
                       bot_enabled, search_states>>

\* main.callback_handler on the payload archive_save_settings, with the
\* outcome of the INSERT
SaveSettingsCallback(user_id, insert_ok) ==
    /\ Admitted(user_id)
    /\ Len(sources) < MaxSaved
    /\ LET handled ==
              IF user_id \notin DOMAIN archive_states
              THEN Effect(archive_states, next_step[user_id], sources, "ignored")
              ELSE SaveArchiveSettingsQuery(archive_states, next_step[user_id],
                                            sources, user_id, insert_ok)
       IN  /\ archive_states' = handled.states
           /\ next_step' = [next_step EXCEPT ![user_id] = handled.next]
           /\ sources' = handled.sources
           /\ selected' = IF handled.outcome = "saved"
                          THEN [selected EXCEPT ![user_id] = None] ELSE selected
           /\ last' = [op |-> "archive_save", user |-> user_id,
                       inserted |-> insert_ok, outcome |-> handled.outcome]
    /\ UNCHANGED <<scheduling, backup_logs, process, users, permissions, archived_messages,
                   bot_enabled, search_states>>

ArchiveSteps == {"source_link", "source_title", "topics", "keywords"}

\* a private text message while one of the wizard's next-step handlers is
\* registered for the chat
ArchiveTextInput(user_id, input) ==
    /\ next_step[user_id] \in ArchiveSteps
    /\ LET handled ==
              CASE next_step[user_id] = "source_link" ->
                      ProcessSourceLink(archive_states, sources, user_id, input)
                [] next_step[user_id] = "source_title" ->
                      ProcessSourceTitle(archive_states, sources, user_id, input)
                [] next_step[user_id] = "topics" ->
                      ProcessTopics(archive_states, sources, user_id, input)
                [] next_step[user_id] = "keywords" ->
                      ProcessKeywords(archive_states, sources, user_id, input)
       IN  /\ archive_states' = handled.states
           /\ next_step' = [next_step EXCEPT ![user_id] = handled.next]
           /\ last' = [op |-> "archive_input", user |-> user_id,
                       handler |-> next_step[user_id], input |-> input,
                       outcome |-> handled.outcome]
    /\ UNCHANGED <<scheduling, backup_logs, process, selected, dbTables, search_states>>

\* int(token), None where it raises ValueError
ParseToken(token) == IF token \in DOMAIN TokenInt THEN Some(TokenInt[token]) ELSE None

\* main.callback_handler on a payload search_...: SearchManager.handle_callback
\* on the payload split at "_"; a ValueError of int() is caught by
\* callback_handler
SearchCallback(user_id, data) ==
    LET tag == IF Len(data) >= 3 THEN data[2] ELSE ""
        id == ParseToken(Last(data))
        NoChange(event) ==
            /\ Admitted(user_id)
            /\ last' = event
            /\ UNCHANGED <<scheduling, backup_logs, process, selected, dbTables, wizards>>
    IN  /\ Len(data) >= 2 /\ data[1] = "search"
        /\ IF user_id \notin DOMAIN search_states /\ tag # "result"
           THEN NoChange(SearchRejected(user_id))
           ELSE IF tag = "source"
           THEN IF id = None THEN NoChange([op |-> "search_error", user |-> user_id])
                ELSE SelectSource(user_id, id[1])
           ELSE IF tag = "filter"
           THEN SelectFilter(user_id, Last(data))
           ELSE IF data = <<"search", "execute">>
           THEN ExecuteSearch(user_id)
           ELSE IF tag = "result"
           THEN IF id = None THEN NoChange([op |-> "search_error", user |-> user_id])
                ELSE ShowResultDetails(user_id, id[1])
           ELSE IF tag = "page"
           THEN ShowSearchResults(user_id, id)
           ELSE IF data = <<"search", "export">>
           THEN ExportSearchResults(user_id)
           ELSE IF data = <<"search", "new">>
           THEN SearchNew(user_id)
           ELSE NoChange([op |-> "search_ignored", user |-> user_id])

(***************************************************************************)
(* modules/backup_manager.py                                               *)
(***************************************************************************)
LogBackup_Replace(table, row, insert_ok) ==
    IF ~insert_ok THEN table
    ELSE IF table = <<>> THEN <<row>>
    ELSE [table EXCEPT ![Len(table)] = row]

\* log_backup: INSERT INTO backup_logs; execute_query logs a failing query and
\* returns None, which log_backup does not look at
LogBackup(table, row, insert_ok) ==
    IF insert_ok THEN Append(table, row) ELSE table

\* the row create_backup logs: after the zip file was written, or from the
\* except branch
BackupLogRow(timestamp, zip_ok) ==
    IF zip_ok
    THEN [file_name |-> Some(timestamp), file_size |-> 1, status |-> "success"]
    ELSE [file_name |-> None, file_size |-> 0, status |-> "failed"]

\* create_backup, called by the callback backup_manual ("manual") or by the
\* scheduled auto_backup ("scheduled") at the given second; zip_ok says whether
\* the archive file was written, insert_ok whether the INSERT of log_backup ran
CreateBackup(trigger, timestamp, zip_ok, insert_ok) ==
    /\ process = "polling"
    /\ Len(backup_logs) < MaxBackups
    /\ backup_logs' = LogBackup(backup_logs, BackupLogRow(timestamp, zip_ok), insert_ok)
    /\ last' = [op |-> "create_backup", trigger |-> trigger, written |-> zip_ok,
                inserted |-> insert_ok]
    /\ UNCHANGED <<scheduling, process, selected, dbTables, wizards>>

\* the callback backup_manual
BackupManualCallback(user_id, timestamp, zip_ok, insert_ok) ==
    /\ Admitted(user_id)
    /\ CreateBackup("manual", timestamp, zip_ok, insert_ok)

\* callbacks backup_list, backup_download_<file>, backup_delete_<file>, and
\* cleanup_old_backups: they read and remove files of the backup directory
BackupFileCallback(user_id, action) ==
    /\ Admitted(user_id)
    /\ last' = [op |-> "backup_files", user |-> user_id, action |-> action]
    /\ UNCHANGED <<scheduling, backup_logs, process, selected, dbTables, wizards>>

\* the default of get_config('backup_interval', '1440'), the value
\* setup_database stores
DefaultInterval == 1440

\* setup_scheduled_backups: schedule.clear('backup'), then one job of the
\* stored interval when it is positive
SetupScheduledBackups(jobs, interval) ==
    LET cleared == SelectSeq(jobs, LAMBDA job : job.tag # "backup") IN
    IF interval > 0
    THEN Append(cleared, [tag |-> "backup", minutes |-> interval])
    ELSE cleared

\* callback backup_set_interval_<n> of the backup menu: set_backup_interval
\* stores the value and sets the schedule up again
BackupSetIntervalCallback(user_id, interval) ==
    /\ Admitted(user_id)
    /\ backup_interval' = interval
    /\ backup_jobs' = SetupScheduledBackups(backup_jobs, interval)
    /\ last' = [op |-> "set_interval", user |-> user_id, menu |-> "backup",
                interval |-> interval]
    /\ UNCHANGED <<backup_logs, process, selected, dbTables, wizards>>

\* callback config_set_backup_interval_<n> of the settings menu:
\* ConfigManager.handle_callback stores the value
ConfigSetBackupIntervalCallback(user_id, interval) ==
    /\ Admitted(user_id)
    /\ backup_interval' = interval
    /\ last' = [op |-> "set_interval", user |-> user_id, menu |-> "settings",
                interval |-> interval]
    /\ UNCHANGED <<backup_jobs, backup_logs, process, selected, dbTables, wizards>>

\* callback backup_restore: asks for the file and registers
\* process_restore_file for the chat
BackupRestoreCallback(user_id) ==
    /\ Admitted(user_id)
    /\ next_step' = [next_step EXCEPT ![user_id] = "restore_file"]
    /\ last' = [op |-> "backup_restore", user |-> user_id]
    /\ UNCHANGED <<scheduling, backup_logs, process, selected, dbTables, archive_states,
                   search_states>>

\* the next-step handler process_restore_file: a message without a document
\* (None) or with a file that is no zip is refused, a zip file is stored as
\* temp_restore.zip and the confirmation keyboard is sent
ProcessRestoreFile(user_id, document) ==
    /\ next_step[user_id] = "restore_file"
    /\ next_step' = [next_step EXCEPT ![user_id] = "none"]
    /\ last' = [op |-> "restore_file", user |-> user_id,
                outcome |-> IF document = Some("zip") THEN "stored" ELSE "refused"]
    /\ UNCHANGED <<scheduling, backup_logs, process, selected, dbTables, archive_states,
                   search_states>>

\* callbacks backup_restore_confirm and backup_restore_cancel of that
\* keyboard: BackupManager.handle_callback has no branch for them
BackupRestoreAnswer(user_id, answer) ==
    /\ Admitted(user_id)
    /\ last' = [op |-> "backup_restore_answer", user |-> user_id, answer |-> answer]
    /\ UNCHANGED <<scheduling, backup_logs, process, selected, dbTables, wizards>>

(***************************************************************************)
(* main.py: module startup, and setup_database of modules/db_handler.py    *)
(***************************************************************************)
\* install_mysql: True at once when a server is already running, else the
\* result of the package installation
InstallMysql(running, install_ok) == running \/ install_ok

\* DatabaseManager.create_database: False without a connection
CreateDatabase(reachable) == reachable

\* setup_database(DatabaseManager()): "TypeError" for DB_TYPE sqlite
\* (create_database is called without its argument), False when MySQL is
\* neither installed nor installable, True otherwise.  The results of
\* create_database and of every execute_query are not looked at.
SetupDatabase(db_type, installed, running, install_ok, reachable) ==
    IF db_type = "sqlite" THEN "TypeError"
    ELSE IF ~installed /\ ~InstallMysql(running, install_ok) THEN "False"
    ELSE LET created == CreateDatabase(reachable) IN "True"

\* module startup up to bot.polling: sys.exit(1) without a token or when
\* setup_database returns False, the traceback of an uncaught exception ends
\* the process with status 1 as well; the constructors of the managers read
\* the configuration with a default and do not raise
Startup(token, db_type, installed, running, install_ok, reachable) ==
    LET setup == SetupDatabase(db_type, installed, running, install_ok, reachable)
        exits == ~token \/ setup # "True"
    IN  /\ process = "starting"
        /\ process' = IF exits THEN "exited" ELSE "polling"
        /\ last' = [op |-> "startup", token |-> token, db_type |-> db_type,
                    reachable |-> reachable,
                    exit_status |-> IF exits THEN Some(1) ELSE None]
        /\ backup_jobs' = IF exits THEN backup_jobs
                          ELSE SetupScheduledBackups(backup_jobs, backup_interval)
        /\ UNCHANGED <<backup_interval, backup_logs, selected, dbTables, wizards>>

(***************************************************************************)
(* Inputs and initial states                                               *)
(***************************************************************************)
UserIds == {1, 2}

\* setup_database: the ADMIN_ID seed (user 1) and one user registered by /start
InitialUsers == [u \in UserIds |-> [is_admin |-> (u = 1)]]

TextMessage(chat_id, chat_type, message_id, date, text, from_user) ==
    [chat_id |-> chat_id, chat_type |-> chat_type, message_id |-> message_id,
     content_type |-> "text", text |-> text, caption |-> <<>>, file_id |-> 0,
     from_user |-> from_user, date |-> date,
     is_topic_message |-> FALSE, message_thread_id |-> None]

\* group messages of both chats, a re-delivery with a changed timestamp, and a
\* private chat whose id equals a monitored chat's
PipelineMessages ==
    {TextMessage(c, "supergroup", i, 1, <<"f">>, None) : c \in ChatIds, i \in MsgIds}
    \cup {TextMessage(1, "supergroup", 1, 2, <<"f">>, None),
          TextMessage(1, "private", 1, 1, <<"f">>, None)}

\* which of the three queries of one delivery run: all, or all but one
QueryOutcomes ==
    {<<TRUE, TRUE, TRUE>>, <<FALSE, TRUE, TRUE>>, <<TRUE, FALSE, TRUE>>, <<TRUE, TRUE, FALSE>>}

NoEvent == [op |-> "none"]

EmptyStates == [u \in {} |-> NoEvent]

InitCommon ==
    /\ users = InitialUsers
    /\ permissions = {}
    /\ bot_enabled = TRUE
    /\ backup_logs = <<>>
    /\ backup_interval = DefaultInterval
    /\ backup_jobs = SetupScheduledBackups(<<>>, DefaultInterval)
    /\ process = "polling"
    /\ selected = [u \in UserIds |-> None]
    /\ archive_states = EmptyStates
    /\ search_states = EmptyStates
    /\ next_step = [u \in UserIds |-> "none"]

(***************************************************************************)
(* Spec: the archival pipeline over two saved sources (two chats, the same *)
(* chat saved twice, or one source saved by username only)                 *)
(***************************************************************************)
Init ==
    /\ InitCommon
    /\ last = NoEvent
    /\ sources \in {<<PlainSource(Some(1)), PlainSource(Some(2))>>,
                    <<PlainSource(Some(1)), PlainSource(Some(1))>>,
                    <<PlainSource(Some(1)), PlainSource(None)>>}
    /\ archived_messages = <<>>

Deliver ==
    \E message \in PipelineMessages, ok \in QueryOutcomes :
        HandleAllMessages(message, ok[1], ok[2], ok[3])

StartSetup == \E user_id \in UserIds : StartArchiveSetup(user_id)

ToggleSource ==
    \E user_id \in UserIds, source_id \in 1..Len(sources) :
        ArchiveToggleCallback(user_id, source_id)

Next == Deliver \/ StartSetup \/ ToggleSource

Spec == Init /\ [][Next]_vars

(***************************************************************************)
(* SpecFilter: process_message applied once to every (source row, message) *)
(* pair of a bounded input space                                           *)
(***************************************************************************)
\* each of text / photo set, cleared or missing; every other kind missing
FilterFlagSets ==
    UNION {[d -> BOOLEAN] : d \in SUBSET {"text", "photo"}}

KeywordLists ==
    {<<>>, << <<"F">> >>, << <<"f", "o">> >>, << <<"x">>, <<"o">> >>}

TopicConfigs ==
    {NullTopics,
     [is_null |-> FALSE, has_all |-> FALSE, ids |-> {}],
     [is_null |-> FALSE, has_all |-> TRUE, ids |-> {}],
     [is_null |-> FALSE, has_all |-> FALSE, ids |-> {1, 2}]}

FilterSources ==
    {SourceRow(type, Some(1), [flags |-> flags, keywords |-> keywords], topics) :
        type \in {"supergroup", "topic_group"}, flags \in FilterFlagSets,
        keywords \in KeywordLists, topics \in TopicConfigs}

Texts == {<<>>, <<"a", "f">>, <<"F", "O">>, <<"x">>}

\* (is_topic_message, message_thread_id)
Threads == {<<FALSE, None>>, <<FALSE, Some(3)>>, <<TRUE, Some(1)>>, <<TRUE, Some(3)>>}

FilterMessages ==
    {[chat_id |-> 1, chat_type |-> "supergroup", message_id |-> 1,
      content_type |-> kind,
      text |-> IF kind = "text" THEN body ELSE <<>>,
      caption |-> IF kind = "text" THEN <<>> ELSE body,
      file_id |-> IF kind = "text" THEN 0 ELSE 7,
      from_user |-> None, date |-> 1,
      is_topic_message |-> thread[1], message_thread_id |-> thread[2]] :
        kind \in {"text", "photo", "video"}, body \in Texts, thread \in Threads}

InitFilter ==
    /\ InitCommon
    /\ last = NoEvent
    /\ sources \in {<<row>> : row \in FilterSources}
    /\ archived_messages = <<>>

DeliverOnce ==
    /\ last = NoEvent
    /\ \E message \in FilterMessages : HandleAllMessages(message, TRUE, TRUE, TRUE)

NextFilter == DeliverOnce

SpecFilter == InitFilter /\ [][NextFilter]_vars

(***************************************************************************)
(* SpecQuery: search_messages applied once to every (source id, filter     *)
(* set) pair of a bounded input space, over a fixed archive                *)
(***************************************************************************)
Alice == [id |-> 5, first_name |-> <<"a", "l">>, last_name |-> None, username |-> None]

PhotoMessage(chat_id, message_id, date, caption, from_user, thread) ==
    [TextMessage(chat_id, "supergroup", message_id, date, <<>>, from_user) EXCEPT
        !.content_type = "photo", !.caption = caption, !.file_id = 7,
        !.is_topic_message = IsSome(thread), !.message_thread_id = thread]

\* rows as archive_message writes them: two sources, a channel post without
\* sender (sender_id 0), two rows of equal date, a row of a topic thread
QueryTable ==
    <<ArchiveRow(TextMessage(1, "supergroup", 1, 1, <<"f", "o">>, Some(Alice)), 1),
      ArchiveRow(TextMessage(1, "supergroup", 2, 2, <<"x">>, None), 1),
      ArchiveRow(PhotoMessage(1, 3, 2, <<"F">>, Some(Alice), Some(1)), 1),
      ArchiveRow(TextMessage(2, "supergroup", 1, 3, <<"f", "o">>, Some(Alice)), 2),
      ArchiveRow(PhotoMessage(1, 4, 3, <<>>, None, None), 1)>>

Optional(values) == {None} \cup {Some(v) : v \in values}

QueryFilters ==
    [text : Optional({<<"F">>, <<"f", "_">>}),
     date_from : Optional({2}),
     date_to : Optional({2}),
     media_type : Optional({"photo"}),
     sender_id : Optional({0, 5}),
     sender_name : Optional({<<"A">>}),
     topic_id : Optional({[is_all |-> TRUE, id |-> 0], [is_all |-> FALSE, id |-> 1]})]

InitQuery ==
    /\ InitCommon
    /\ sources = <<PlainSource(Some(1)), PlainSource(Some(2))>>
    /\ archived_messages = QueryTable
    /\ last \in {[op |-> "search_call", source |-> source_id, filters |-> filters] :
                    source_id \in 1..2, filters \in QueryFilters}

\* one call of search_messages(source_id, filters)
RunQuery ==
    /\ last.op = "search_call"
    /\ \E results \in SearchMessages(archived_messages, last.source, last.filters) :
          last' = [op |-> "search_messages", source |-> last.source,
                   filters |-> last.filters, results |-> results]
    /\ UNCHANGED <<scheduling, backup_logs, process, selected, dbTables, wizards>>

NextQuery == RunQuery

SpecQuery == InitQuery /\ [][NextQuery]_vars

(***************************************************************************)
(* SpecPage: an admin searches a source holding 1..MaxRows rows and turns  *)
(* pages                                                                   *)
(***************************************************************************)
MaxRows == 21

\* timestamps out of arrival order: rows 1, 2, 3, 4 ... carry 2, 1, 4, 3 ...
PageDate(i) == IF i % 2 = 1 THEN i + 1 ELSE i - 1

PageTable(n) ==
    [i \in 1..n |-> ArchiveRow(TextMessage(1, "supergroup", i, PageDate(i), <<"f">>, None), 1)]

\* the suffix of search_page_<n>: None for search_page_current
PageRequests == {None} \cup {Some(page) : page \in -1..4}

InitPage ==
    /\ InitCommon
    /\ last = NoEvent
    /\ sources = <<PlainSource(Some(1)), PlainSource(Some(2))>>
    /\ archived_messages \in {PageTable(n) : n \in 1..MaxRows}

PageStart == StartSearch(1)

PageSelect == SelectSource(1, 1)

PageExecute == ExecuteSearch(1)

PageTurn == \E request \in PageRequests : ShowSearchResults(1, request)

NextPage == PageStart \/ PageSelect \/ PageExecute \/ PageTurn

SpecPage == InitPage /\ [][NextPage]_vars

(***************************************************************************)
(* SpecAccess: permissions, source activation and the bot switch, with     *)
(* start_search showing each user's accessible sources                     *)
(***************************************************************************)
\* user ids a user_grant_ callback can name: the admin, the registered user
\* and an id that is not in users
GrantTargets == {1, 2, 3}

InitAccess ==
    /\ InitCommon
    /\ last = NoEvent
    /\ sources = <<PlainSource(Some(1)), PlainSource(Some(2))>>
    /\ archived_messages = <<>>

AccessGrant ==
    \E caller \in UserIds, source_id \in 1..Len(sources), user_id \in GrantTargets :
        UserGrantCallback(caller, source_id, user_id)

AccessStartSearch == \E user_id \in UserIds : StartSearch(user_id)

AccessConfigToggle == \E user_id \in UserIds : ConfigToggleStatus(user_id)

NextAccess ==
    AccessGrant \/ StartSetup \/ ToggleSource \/ AccessStartSearch \/ AccessConfigToggle

SpecAccess == InitAccess /\ [][NextAccess]_vars

(***************************************************************************)
(* SpecSearch: the registered non-admin user walks the search wizard while *)
(* messages are archived and the admin grants and revokes permissions      *)
(***************************************************************************)
Searcher == 2

SearchDeliveries ==
    {TextMessage(1, "supergroup", 1, 1, <<"0", "5">>, Some(Alice)),
     TextMessage(1, "supergroup", 1, 2, <<"x">>, Some(Alice)),
     TextMessage(2, "supergroup", 1, 1, <<"f">>, None)}

\* private texts typed at a wizard prompt
TypedInputs == {<<"f">>, <<" ", "0", "5">>}

FilterTypes == {"text", "date", "media", "sender", "topic"}

InitSearch ==
    /\ InitCommon
    /\ last = NoEvent
    /\ sources = <<PlainSource(Some(1)), PlainSource(Some(2))>>
    /\ archived_messages = <<>>

SearchDeliver ==
    \E message \in SearchDeliveries : HandleAllMessages(message, TRUE, TRUE, TRUE)

SearchGrant == UserGrantCallback(1, 1, Searcher)

SearchStart == StartSearch(Searcher)

SearchSelectSource == \E source_id \in 1..Len(sources) : SelectSource(Searcher, source_id)

SearchSelectFilter == \E filter_type \in FilterTypes : SelectFilter(Searcher, filter_type)

SearchTextInput == \E input \in TypedInputs : TextInput(Searcher, input)

SearchExecute == ExecuteSearch(Searcher)

SearchPage == \E request \in {None, Some(0), Some(1), Some(2)} : ShowSearchResults(Searcher, request)

SearchDetails == \E result_id \in 1..MaxArchived : ShowResultDetails(Searcher, result_id)

SearchExport == ExportSearchResults(Searcher)

SearchNewCallback == SearchNew(Searcher)

NextSearch ==
    \/ SearchDeliver \/ SearchGrant \/ SearchStart \/ SearchSelectSource
    \/ SearchSelectFilter \/ SearchTextInput \/ SearchExecute \/ SearchPage
    \/ SearchDetails \/ SearchExport \/ SearchNewCallback

SpecSearch == InitSearch /\ [][NextSearch]_vars

(***************************************************************************)
(* SpecAdmin: the admin and the registered user send user_toggle_admin_    *)
(* callbacks and answer the add-admin prompt                               *)
(***************************************************************************)
\* user ids a user_toggle_admin_ callback can name
AdminTargets == {1, 2, 3}

\* private texts typed at the add-admin prompt
AdminInputs == {<<"1">>, <<" ", "2">>, <<"3">>, <<"x">>}

InitAdmin ==
    /\ InitCommon
    /\ last = NoEvent
    /\ sources = <<PlainSource(Some(1))>>
    /\ archived_messages = <<>>

AdminToggle ==
    \E caller \in UserIds, user_id \in AdminTargets : UserToggleAdminCallback(caller, user_id)

AdminPrompt == \E caller \in UserIds : UserAddAdminCallback(caller)

AdminInput == \E caller \in UserIds, input \in AdminInputs : ProcessAddAdmin(caller, input)

AdminConfigToggle == \E user_id \in UserIds : ConfigToggleStatus(user_id)

NextAdmin == AdminToggle \/ AdminPrompt \/ AdminInput \/ AdminConfigToggle

SpecAdmin == InitAdmin /\ [][NextAdmin]_vars

(***************************************************************************)
(* SpecWizard: the archive-setup wizard of the admin, from the first       *)
(* button to the saved row                                                 *)
(***************************************************************************)
LinkInputs ==
    {<<"@">>, <<" ", "@", "f">>, <<"-", "1", "0", "0", "1">>, HttpsPrefix, <<"x">>}

\* a title of two characters, one of three, and one of MaxTitle + 1
TitleInputs ==
    {<<"a", "b">>, <<" ", "a", "b", "c", " ">>, [i \in 1..(MaxTitle + 1) |-> "t"]}

TopicsInputs == {<<"A", "L", "L">>, <<"1", ",", "x", ",", " ", "2">>, <<"x", ",">>}

KeywordInputs == {<<"f", ",", " ", ",", "o">>, <<"C", "l", "e", "a", "r">>}

InputsFor(handler) ==
    CASE handler = "source_link" -> LinkInputs
      [] handler = "source_title" -> TitleInputs
      [] handler = "topics" -> TopicsInputs
      [] handler = "keywords" -> KeywordInputs
      [] OTHER -> {}

\* the buttons the wizard and the source list show
WizardButtons ==
    {<<"archive", "source", "channel">>, <<"archive", "source", "topic", "group">>,
     <<"archive", "filter", "text">>, <<"archive", "filter", "keywords">>,
     SaveData, <<"archive", "edit", "1">>}

\* payloads with a known prefix and a remainder no button carries
MalformedArchiveData ==
    {<<"archive", "view", "x">>, <<"archive", "source", "bogus">>,
     <<"archive", "topic", "1">>, <<"archive", "bogus", "1">>}

InitWizard ==
    /\ InitCommon
    /\ last = NoEvent
    /\ sources = <<>>
    /\ archived_messages = <<>>

\* the admin of InitialUsers
Admin == 1

WizardStart == StartArchiveSetup(Admin)

WizardCallback ==
    \E data \in WizardButtons \cup MalformedArchiveData : ArchiveCallback(Admin, data)

WizardInput ==
    \E input \in InputsFor(next_step[Admin]) : ArchiveTextInput(Admin, input)

NextWizard == WizardStart \/ WizardCallback \/ WizardInput

SpecWizard == InitWizard /\ [][NextWizard]_vars

(***************************************************************************)
(* SpecPrompt: the three prompt handlers of the wizard (link, title,       *)
(* topics), each started in a wizard state in which the code registers it  *)
(***************************************************************************)
PromptTypes == {"channel", "topic_group"}

\* the wizard state at each prompt: after handle_source_type_selection, after
\* an accepted link, and after an accepted title of a topic group
PromptStates ==
    {<<[step |-> "request_source_link",
        source_data |-> [EmptySourceData EXCEPT !.type = Some(type)]],
       "source_link">> : type \in PromptTypes}
    \cup
    {<<[step |-> "request_source_title",
        source_data |-> [EmptySourceData EXCEPT !.type = Some(type),
                                                !.chat_username = Some(<<"f">>)]],
       "source_title">> : type \in PromptTypes}
    \cup
    {<<[step |-> "request_topics",
        source_data |-> [EmptySourceData EXCEPT !.type = Some("topic_group"),
                                                !.chat_id = Some(0 - 1001),
                                                !.chat_title = Some(<<"a", "b", "c">>)]],
       "topics">>}

InitPrompt ==
    /\ users = InitialUsers
    /\ sources = <<>>
    /\ permissions = {}
    /\ archived_messages = <<>>
    /\ bot_enabled = TRUE
    /\ backup_logs = <<>>
    /\ backup_interval = DefaultInterval
    /\ backup_jobs = SetupScheduledBackups(<<>>, DefaultInterval)
    /\ process = "polling"
    /\ selected = [u \in UserIds |-> None]
    /\ search_states = EmptyStates
    /\ last = NoEvent
    /\ \E prompt \in PromptStates :
          /\ archive_states = PutState(EmptyStates, Admin, prompt[1])
          /\ next_step = [u \in UserIds |-> IF u = Admin THEN prompt[2] ELSE "none"]

PromptInput ==
    \E input \in InputsFor(next_step[Admin]) : ArchiveTextInput(Admin, input)

\* the filter keyboard shown after the last prompt
PromptCallback ==
    \E data \in {<<"archive", "filter", "text">>, <<"archive", "filter", "keywords">>} :
        ArchiveCallback(Admin, data)

NextPrompt == PromptInput \/ PromptCallback

SpecPrompt == InitPrompt /\ [][NextPrompt]_vars

(***************************************************************************)
(* SpecCallbacks: the buttons of both wizards and payloads no button       *)
(* carries, sent by either user while the wizards are in flight            *)
(***************************************************************************)
MalformedSearchData ==
    {<<"search", "page", "current">>, <<"search", "source", "x">>,
     <<"search", "result", "x">>, <<"search", "filter", "bogus">>,
     <<"search", "bogus", "1">>}

SearchButtons ==
    {<<"search", "source", "1">>, <<"search", "filter", "text">>,
     <<"search", "execute">>, <<"search", "page", "1">>}

ArchiveButtons ==
    {<<"archive", "source", "channel">>, <<"archive", "filter", "text">>,
     <<"archive", "toggle", "1">>}

InitCallbacks ==
    /\ InitCommon
    /\ last = NoEvent
    /\ sources = <<PlainSource(Some(1))>>
    /\ archived_messages = <<ArchiveRow(TextMessage(1, "supergroup", 1, 1, <<"f">>, None), 1)>>

CallbacksStart ==
    \E user_id \in UserIds : StartArchiveSetup(user_id) \/ StartSearch(user_id)

CallbacksArchive ==
    \E user_id \in UserIds, data \in ArchiveButtons \cup MalformedArchiveData :
        ArchiveCallback(user_id, data)

CallbacksSearch ==
    \E user_id \in UserIds, data \in SearchButtons \cup MalformedSearchData :
        SearchCallback(user_id, data)

CallbacksInput ==
    \E user_id \in UserIds :
        \/ \E input \in {<<"x">>, <<" ", "@", "f">>} : ArchiveTextInput(user_id, input)
        \/ \E input \in {<<"f">>, <<"f", "o">>} : TextInput(user_id, input)

NextCallbacks == CallbacksStart \/ CallbacksArchive \/ CallbacksSearch \/ CallbacksInput

SpecCallbacks == InitCallbacks /\ [][NextCallbacks]_vars

(***************************************************************************)
(* SpecFaults: the archival pipeline with deliveries whose processing      *)
(* raises an exception                                                     *)
(***************************************************************************)
InitFaults ==
    /\ InitCommon
    /\ last = NoEvent
    /\ sources = <<PlainSource(Some(1)), PlainSource(Some(2))>>
    /\ archived_messages = <<>>

FaultsRaise ==
    \E message \in PipelineMessages, stage \in Stages :
        HandleAllMessagesRaising(message, stage)

NextFaults == Deliver \/ FaultsRaise

SpecFaults == InitFaults /\ [][NextFaults]_vars

(***************************************************************************)
(* SpecBackup: manual and scheduled backups, with the zip file written or  *)
(* not and the log INSERT run or failed, beside the other backup callbacks *)
(***************************************************************************)
\* seconds of the clock that names the backup file
Timestamps == {1, 2}

InitBackup ==
    /\ InitCommon
    /\ last = NoEvent
    /\ sources = <<PlainSource(Some(1))>>
    /\ archived_messages = <<>>

BackupManual ==
    \E user_id \in UserIds, timestamp \in Timestamps, zip_ok, insert_ok \in BOOLEAN :
        BackupManualCallback(user_id, timestamp, zip_ok, insert_ok)

BackupScheduled ==
    \E timestamp \in Timestamps, zip_ok, insert_ok \in BOOLEAN :
        CreateBackup("scheduled", timestamp, zip_ok, insert_ok)

BackupFiles ==
    \E user_id \in UserIds, action \in {"list", "download", "delete"} :
        BackupFileCallback(user_id, action)

BackupConfigToggle == \E user_id \in UserIds : ConfigToggleStatus(user_id)

NextBackup == BackupManual \/ BackupScheduled \/ BackupFiles \/ BackupConfigToggle

SpecBackup == InitBackup /\ [][NextBackup]_vars

(***************************************************************************)
(* SpecStartup: the process from its start, over every environment (token, *)
(* database type, MySQL installed / running / installable, database        *)
(* reachable), followed by the pipeline once polling has begun             *)
(***************************************************************************)
InitStartup ==
    /\ users = InitialUsers
    /\ permissions = {}
    /\ bot_enabled = TRUE
    /\ backup_logs = <<>>
    /\ backup_interval = DefaultInterval
    /\ backup_jobs = <<>>
    /\ process = "starting"
    /\ selected = [u \in UserIds |-> None]
    /\ archive_states = EmptyStates
    /\ search_states = EmptyStates
    /\ next_step = [u \in UserIds |-> "none"]
    /\ last = NoEvent
    /\ sources = <<PlainSource(Some(1))>>
    /\ archived_messages = <<>>

StartupRun ==
    \E token, installed, running, install_ok, reachable \in BOOLEAN,
       db_type \in {"mysql", "sqlite"} :
        Startup(token, db_type, installed, running, install_ok, reachable)

NextStartup == StartupRun \/ Deliver

SpecStartup == InitStartup /\ [][NextStartup]_vars

(***************************************************************************)
(* SpecSettings: the step select_filters of the setup wizard, with a fully *)
(* accumulated configuration: toggles, the edit of a saved source, and     *)
(* saves whose INSERT runs or fails                                        *)
(***************************************************************************)
\* the wizard state after a type button, an accepted link and title, and a
\* keyword list
SettingsState ==
    [step |-> "select_filters",
     source_data |->
        [EmptySourceData EXCEPT
            !.type = Some("channel"),
            !.chat_username = Some(<<"f">>),
            !.chat_title = Some(<<"a", "b", "c">>),
            !.filter_config =
                Some([DefaultFilterConfig EXCEPT !.keywords = <<<<"k">>>>])]]

SettingsKinds == {"text", "photo", "video"}

InitSettings ==
    /\ users = InitialUsers
    /\ sources \in {<<>>, <<PlainSource(Some(1))>>}
    /\ permissions = {}
    /\ archived_messages = <<>>
    /\ bot_enabled = TRUE
    /\ backup_logs = <<>>
    /\ backup_interval = DefaultInterval
    /\ backup_jobs = SetupScheduledBackups(<<>>, DefaultInterval)
    /\ process = "polling"
    /\ selected = [u \in UserIds |-> None]
    /\ search_states = EmptyStates
    /\ last = NoEvent
    /\ archive_states = PutState(EmptyStates, Admin, SettingsState)
    /\ next_step = [u \in UserIds |-> "none"]

SettingsStart == StartArchiveSetup(Admin)

SettingsToggle ==
    \E kind \in SettingsKinds : ArchiveCallback(Admin, <<"archive", "filter", kind>>)

SettingsEdit == ArchiveCallback(Admin, <<"archive", "edit", "1">>)

SettingsSave == \E insert_ok \in BOOLEAN : SaveSettingsCallback(Admin, insert_ok)

NextSettings == SettingsStart \/ SettingsToggle \/ SettingsEdit \/ SettingsSave

SpecSettings == InitSettings /\ [][NextSettings]_vars

(***************************************************************************)
(* SpecFilterSet: the admin walks the search wizard over a topic group     *)
(* with the buttons its keyboards carry and the answers to its prompts     *)
(***************************************************************************)
\* callback_data of the source keyboard, the filter keyboard, and the date,
\* media and topic keyboards
OfferedButtons ==
    {<<"search", "source", "1">>, <<"search", "filter", "text">>,
     <<"search", "filter", "date">>, <<"search", "filter", "media">>,
     <<"search", "filter", "sender">>, <<"search", "filter", "topic">>,
     <<"search", "date", "week">>, <<"search", "media", "photo">>,
     <<"search", "topic", "1">>, <<"search", "topic", "all">>,
     <<"search", "execute">>}

InitFilterSet ==
    /\ InitCommon
    /\ last = NoEvent
    /\ sources = <<SourceRow("topic_group", Some(1), DefaultFilterConfig,
                             [is_null |-> FALSE, has_all |-> FALSE, ids |-> {1}])>>
    /\ archived_messages =
          <<ArchiveRow(PhotoMessage(1, 1, 1, <<"f", "o">>, Some(Alice), Some(1)), 1),
            ArchiveRow(TextMessage(1, "supergroup", 2, 2, <<"x">>, None), 1)>>

FilterSetStart == StartSearch(Admin)

FilterSetButton == \E data \in OfferedButtons : SearchCallback(Admin, data)

FilterSetInput == \E input \in {<<"f", "o">>, <<"5">>, <<"a", "l">>} : TextInput(Admin, input)

NextFilterSet == FilterSetStart \/ FilterSetButton \/ FilterSetInput

SpecFilterSet == InitFilterSet /\ [][NextFilterSet]_vars

(***************************************************************************)
(* SpecRemoval: the delete buttons of a saved source and the restore flow  *)
(* of the backup menu, beside deliveries, toggles and new setups           *)
(***************************************************************************)
RemovalButtons ==
    {<<"archive", "delete", "1">>, <<"archive", "delete", "confirm", "1">>,
     <<"archive", "view", "1">>, <<"archive", "toggle", "1">>}

InitRemoval ==
    /\ InitCommon
    /\ last = NoEvent
    /\ sources = <<PlainSource(Some(1))>>
    /\ archived_messages = <<ArchiveRow(TextMessage(1, "supergroup", 1, 1, <<"f">>, None), 1)>>

RemovalStart == StartArchiveSetup(Admin)

RemovalCallback == \E data \in RemovalButtons : ArchiveCallback(Admin, data)

RemovalDeliver ==
    \E message \in SearchDeliveries : HandleAllMessages(message, TRUE, TRUE, TRUE)

RemovalRestore ==
    \/ BackupRestoreCallback(Admin)
    \/ \E document \in {None, Some("zip"), Some("txt")} : ProcessRestoreFile(Admin, document)
    \/ \E answer \in {"confirm", "cancel"} : BackupRestoreAnswer(Admin, answer)

NextRemoval == RemovalStart \/ RemovalCallback \/ RemovalDeliver \/ RemovalRestore

SpecRemoval == InitRemoval /\ [][NextRemoval]_vars

(***************************************************************************)
(* SpecUsername: the admin saves a source given by username only, beside a *)
(* source saved by chat id, while messages of both chats are delivered     *)
(***************************************************************************)
InitUsername ==
    /\ users = InitialUsers
    /\ sources = <<PlainSource(Some(1))>>
    /\ permissions = {}
    /\ archived_messages = <<>>
    /\ bot_enabled = TRUE
    /\ backup_logs = <<>>
    /\ backup_interval = DefaultInterval
    /\ backup_jobs = SetupScheduledBackups(<<>>, DefaultInterval)
    /\ process = "polling"
    /\ selected = [u \in UserIds |-> None]
    /\ search_states = EmptyStates
    /\ last = NoEvent
    /\ archive_states = PutState(EmptyStates, Admin, SettingsState)
    /\ next_step = [u \in UserIds |-> "none"]

UsernameToggle ==
    \E data \in {<<"archive", "filter", "photo">>, <<"archive", "toggle", "1">>,
                 <<"archive", "toggle", "2">>} :
        ArchiveCallback(Admin, data)

UsernameSave == SaveSettingsCallback(Admin, TRUE)

NextUsername == UsernameToggle \/ UsernameSave \/ Deliver \/ StartSetup

SpecUsername == InitUsername /\ [][NextUsername]_vars

(***************************************************************************)
(* SpecSchedule: backup-interval changes through the backup menu and the   *)
(* settings menu, beside manual backups                                    *)
(***************************************************************************)
\* intervals of the keyboards: show_auto_backup_setup offers 30 .. 1440 and
\* 0 (disable), show_backup_settings offers 30 .. 1440
BackupMenuIntervals == {0, 30, 60, 1440}

SettingsMenuIntervals == {30, 60, 1440}

InitSchedule ==
    /\ InitCommon
    /\ last = NoEvent
    /\ sources = <<PlainSource(Some(1))>>
    /\ archived_messages = <<>>

ScheduleBackupMenu ==
    \E user_id \in UserIds, interval \in BackupMenuIntervals :
        BackupSetIntervalCallback(user_id, interval)

ScheduleSettingsMenu ==
    \E user_id \in UserIds, interval \in SettingsMenuIntervals :
        ConfigSetBackupIntervalCallback(user_id, interval)

\* start_scheduler: schedule.run_pending() runs auto_backup when a job tagged
\* 'backup' is due
ScheduleRunPending ==
    /\ \E i \in DOMAIN backup_jobs : backup_jobs[i].tag = "backup"
    /\ \E timestamp \in Timestamps, zip_ok, insert_ok \in BOOLEAN :
           CreateBackup("scheduled", timestamp, zip_ok, insert_ok)

NextSchedule == ScheduleBackupMenu \/ ScheduleSettingsMenu \/ ScheduleRunPending

SpecSchedule == InitSchedule /\ [][NextSchedule]_vars

(***************************************************************************)
(* Claims                                                                  *)
(***************************************************************************)
Archived(event) == event.op = "deliver" /\ event.outcome \in {"insert", "update"}

\* C1: archived_messages holds at most one row per (source id, external
\* message id) after any sequence of deliveries, re-deliveries included.
C1_OneRowPerKey ==
    \A i, j \in 1..Len(archived_messages) :
        (/\ archived_messages[i].source_id = archived_messages[j].source_id
         /\ archived_messages[i].message_id = archived_messages[j].message_id) => i = j

\* the text the keyword check reads: the text of a text message, the caption
\* of a media message
C2_Body(message) == IF message.content_type = "text" THEN message.text ELSE message.caption

C2_ContainsIgnoringCase(body, keyword) ==
    \E offset \in 0..(Len(body) - Len(keyword)) :
        \A j \in 1..Len(keyword) : LowerChar(body[offset + j]) = LowerChar(keyword[j])

\* C2: a message that reaches the keyword check is accepted iff the keyword
\* list is empty or its text (caption for media) contains a keyword as a
\* case-insensitive substring; without text it is rejected whenever the list
\* is non-empty.
C2_KeywordCheck ==
    (last.op = "deliver" /\ last.source # 0 /\ last.outcome \notin {"type", "topic"}) =>
        LET keywords == sources[last.source].filter_config.keywords
            body == C2_Body(last.msg)
        IN (last.outcome # "keyword") <=>
               \/ keywords = <<>>
               \/ /\ body # <<>>
                  /\ \E i \in 1..Len(keywords) : C2_ContainsIgnoringCase(body, keywords[i])

\* a media message whose caption holds a keyword in another case is archived
C2_Witness ==
    /\ Archived(last)
    /\ last.msg.content_type = "photo"
    /\ last.msg.caption = <<"a", "f">>
    /\ sources[last.source].filter_config.keywords = << <<"F">> >>

\* C3: under a topic-group source a topic-thread message is archived only if
\* its topic id is in the source's allow-list or the allow-list is 'all';
\* with no allow-list it is never archived.
C3_TopicAllowList ==
    (/\ Archived(last)
     /\ sources[last.source].type = "topic_group"
     /\ last.msg.is_topic_message) =>
        LET topics == sources[last.source].topics_config IN
        /\ ~topics.is_null
        /\ topics.has_all \/ last.msg.message_thread_id[1] \in topics.ids

\* a message of a listed topic is archived under a topic-group source
C3_Witness ==
    /\ Archived(last)
    /\ sources[last.source].type = "topic_group"
    /\ last.msg.is_topic_message
    /\ last.msg.message_thread_id = Some(1)
    /\ sources[last.source].topics_config.ids = {1, 2}

\* C4: a message is archived only if its content-kind is enabled in the
\* source's filter predicate (a missing kind counts as enabled), and a message
\* is blocked by the kind check only when its own kind is disabled.
C4_KindFilter ==
    (last.op = "deliver" /\ last.source # 0) =>
        LET flags == sources[last.source].filter_config.flags
            kind == last.msg.content_type
            disabled == kind \in DOMAIN flags /\ ~flags[kind]
        IN /\ Archived(last) => ~disabled
           /\ last.outcome = "type" <=> disabled

\* a photo is archived while text is disabled and photo is not in the predicate
C4_Witness ==
    /\ Archived(last)
    /\ last.msg.content_type = "photo"
    /\ LET flags == sources[last.source].filter_config.flags
       IN DOMAIN flags = {"text"} /\ ~flags["text"]

C5_NoActiveSource(chat_id) ==
    ~ \E i \in 1..Len(sources) : sources[i].chat_id = <<chat_id>> /\ sources[i].is_active

C5_RowsOf(table, source_id) ==
    {<<i, table[i]>> : i \in {k \in 1..Len(table) : table[k].source_id = source_id}}

\* C5: a message from a private chat, or from a chat with no active source,
\* leaves archived_messages unchanged and is discarded without an error; no
\* row of a source is written while the source is inactive.
C5_InactiveUntouched ==
    [][/\ (/\ last'.op = "deliver"
           /\ \/ last'.msg.chat_type = "private"
              \/ C5_NoActiveSource(last'.msg.chat_id))
          => /\ archived_messages' = archived_messages
             /\ last'.outcome \in {"private", "no_source"}
       /\ \A s \in 1..Len(sources) :
            ~sources[s].is_active =>
                C5_RowsOf(archived_messages', s) = C5_RowsOf(archived_messages, s)
      ]_vars

\* a message arrives for a source that was deactivated after it had archived
\* a message, and is discarded
C5_Witness ==
    /\ last.op = "deliver"
    /\ last.outcome = "no_source"
    /\ C5_NoActiveSource(last.msg.chat_id)
    /\ \E s \in 1..Len(sources) :
         /\ sources[s].chat_id = <<last.msg.chat_id>>
         /\ ~sources[s].is_active
         /\ C5_RowsOf(archived_messages, s) # {}

C6_Contains(value, needle) ==
    \E offset \in 0..(Len(value) - Len(needle)) :
        \A j \in 1..Len(needle) : LowerChar(value[offset + j]) = LowerChar(needle[j])

\* a row satisfies every field present in the filter set
C6_Satisfies(row, filters) ==
    /\ IsSome(filters.text) => C6_Contains(row.message_text, filters.text[1])
    /\ IsSome(filters.date_from) => filters.date_from[1] <= row.message_date
    /\ IsSome(filters.date_to) => row.message_date <= filters.date_to[1]
    /\ IsSome(filters.media_type) => row.media_type = filters.media_type[1]
    /\ IsSome(filters.sender_id) => row.sender_id = filters.sender_id[1]
    /\ (filters.sender_id = None /\ IsSome(filters.sender_name)) =>
           C6_Contains(row.sender_name, filters.sender_name[1])
    /\ (IsSome(filters.topic_id) /\ ~filters.topic_id[1].is_all) =>
           row.topic_id = <<filters.topic_id[1].id>>

\* C6: search_messages(source, filters) returns exactly the archived rows of
\* the chosen source that satisfy every filter field present (text substring,
\* inclusive date bounds, exact content-kind, sender, topic id unless 'all'),
\* each once, ordered by original timestamp descending; with an empty filter
\* set these are all the rows of that source and no row of another source.
C6_SearchContract ==
    last.op = "search_messages" =>
        LET results == last.results
            expected == {i \in 1..Len(archived_messages) :
                            /\ archived_messages[i].source_id = last.source
                            /\ C6_Satisfies(archived_messages[i], last.filters)}
        IN /\ {results[k].id : k \in 1..Len(results)} = expected
           /\ Len(results) = Cardinality(expected)
           /\ \A k \in 1..Len(results) :
                 /\ results[k].source_id = last.source
                 /\ results[k].message_text = archived_messages[results[k].id].message_text
           /\ \A k \in 1..(Len(results) - 1) :
                 results[k].message_date >= results[k + 1].message_date

C7_Ceil(n) == CHOOSE c \in 1..n : c * 10 >= n /\ (c - 1) * 10 < n

\* C7: for a held result list of length N >= 1 and any requested page p,
\* show_search_results shows the items at positions (q-1)*10+1 .. min(q*10, N)
\* with q = min(max(p, 1), ceil(N/10)), stores q as the current page, shows at
\* most 10 items, and item 1 of page 1 is the most recent message.
C7_Pagination ==
    (/\ last.op = "search_results"
     /\ search_states[last.user].results # <<>>
     /\ search_states[last.user].results[1] # <<>>) =>
        LET held == search_states[last.user].results[1]
            N == Len(held)
            p == last.requested
            atLeastOne == IF p >= 1 THEN p ELSE 1
            q == IF atLeastOne <= C7_Ceil(N) THEN atLeastOne ELSE C7_Ceil(N)
            from == (q - 1) * 10 + 1
            to == IF q * 10 <= N THEN q * 10 ELSE N
        IN /\ last.shown = [k \in 1..(to - from + 1) |-> held[from + k - 1]]
           /\ search_states[last.user].page = <<q>>
           /\ Len(last.shown) <= 10
           /\ q = 1 => \A k \in 1..N : held[k].message_date <= last.shown[1].message_date
           /\ last.executed =>
                 {held[k].id : k \in 1..N} =
                     {i \in 1..Len(archived_messages) :
                         archived_messages[i].source_id = held[1].source_id}

\* page 4 is requested of 21 held results: page 3 with the single item 21
C7_Witness ==
    /\ last.op = "search_results"
    /\ last.requested = 4
    /\ search_states[last.user].results # <<>>
    /\ Len(search_states[last.user].results[1]) = 21
    /\ search_states[last.user].page = <<3>>
    /\ Len(last.shown) = 1

\* a contiguous run of items of a list
C8_IsSlice(items, list) ==
    \E offset \in 0..(Len(list) - Len(items)) :
        \A k \in 1..Len(items) : items[k] = list[offset + k]

\* u's held result set is replaced by this step: u executes a search or
\* starts a new one (search_new starts one for the bot's own id)
C8_NewSearch(u) ==
    \/ last'.op = "search_results" /\ last'.executed /\ last'.user = u
    \/ last'.op = "start_search" /\ last'.user = u
    \/ last'.op = "search_new" /\ u = BotId

\* C8: between one search execution and the next for a user, the held result
\* set is changed neither by archive writes nor by page navigation; the pages
\* shown and the export are taken from the held set, not from a fresh query.
C8_HeldResults ==
    [][/\ \A u \in DOMAIN search_states :
            (search_states[u].results # <<>> /\ ~C8_NewSearch(u)) =>
                search_states'[u].results = search_states[u].results
       /\ (last'.op = "search_results" /\ ~last'.executed /\ last'.shown # <<>>) =>
            /\ search_states[last'.user].results # <<>>
            /\ C8_IsSlice(last'.shown, search_states[last'.user].results[1])
       /\ (last'.op = "search_export") =>
            \/ /\ search_states[last'.user].results = <<>>
               /\ last'.exported = <<>>
            \/ /\ search_states[last'.user].results # <<>>
               /\ last'.exported = search_states[last'.user].results[1]
      ]_vars

\* a page of held results is shown, or the held set exported, after the
\* archive has changed so that no fresh query could return the held set
C8_Witness ==
    /\ \/ last.op = "search_results" /\ ~last.executed /\ last.shown # <<>>
       \/ last.op = "search_export" /\ last.exported # <<>>
    /\ LET state == search_states[last.user]
       IN /\ state.results # <<>>
          /\ state.results[1] \notin
                SearchMessages(archived_messages, state.source_id[1], state.filters)

\* C9: for a non-admin user U and a source S, after a grant
\* (toggle_user_permission creating or enabling the permission) S is in U's
\* accessible-source list provided S is active, and after a revoke (the next
\* toggle of the pair) S is not in it.
C9_GrantRevoke ==
    (/\ last.op = "toggle_permission"
     /\ last.user \in DOMAIN users
     /\ ~users[last.user].is_admin) =>
        LET granted == \E p \in permissions :
                          p.user_id = last.user /\ p.source_id = last.source /\ p.can_search
        IN /\ granted = last.new_status
           /\ (granted /\ sources[last.source].is_active) =>
                 last.source \in AccessibleSources(last.user)
           /\ ~granted => last.source \notin AccessibleSources(last.user)

\* the statement without the proviso: after a grant S is in U's list
C9_GrantShowsSource ==
    (/\ last.op = "toggle_permission"
     /\ last.user \in DOMAIN users
     /\ ~users[last.user].is_admin
     /\ \E p \in permissions :
           p.user_id = last.user /\ p.source_id = last.source /\ p.can_search) =>
        last.source \in AccessibleSources(last.user)

\* a permission is revoked on an active source (it was granted before)
C9_Witness ==
    /\ last.op = "toggle_permission"
    /\ last.user = 2
    /\ ~last.new_status
    /\ sources[last.source].is_active
    /\ [user_id |-> 2, source_id |-> last.source, can_search |-> FALSE] \in permissions
    /\ last.source \notin AccessibleSources(2)

C10_MaySearch(user_id, source_id) ==
    \/ user_id \in DOMAIN users /\ users[user_id].is_admin
    \/ \E p \in permissions :
          p.user_id = user_id /\ p.source_id = source_id /\ p.can_search

\* C10: a non-admin user is shown search results or message details of a
\* source only while a permission with can_search = true exists for that
\* (user, source) pair.
C10_OnlyPermitted ==
    /\ (last.op = "search_results") =>
          \A k \in 1..Len(last.shown) : C10_MaySearch(last.user, last.shown[k].source_id)
    /\ (last.op = "result_details" /\ last.found) =>
          C10_MaySearch(last.user, last.row.source_id)

C11_FlagOf(table, user_id) == user_id \in DOMAIN table /\ table[user_id].is_admin

\* C11: the admin flag of a user changes only through an operation invoked by
\* a different user who is an admin at that time: never by the user's own
\* callback or input, and never by a callback or input of a non-admin.
C11_AdminFlagGuard ==
    [][\A user_id \in DOMAIN users' :
          C11_FlagOf(users', user_id) # C11_FlagOf(users, user_id) =>
              /\ last'.op \in {"toggle_admin", "add_admin"}
              /\ last'.caller # user_id
              /\ C11_FlagOf(users, last'.caller)
      ]_vars

C12_Carries(row, source_data) ==
    /\ source_data.type = Some(row.type)
    /\ source_data.chat_title = Some(row.chat_title)
    /\ source_data.filter_config = Some(row.filter_config)
    /\ source_data.chat_id = row.chat_id
    /\ IsSome(source_data.chat_username) =>
           source_data.chat_username = Some(row.chat_username)
    /\ IsSome(source_data.topics) => source_data.topics = Some(row.topics_config)

\* C12: no step of the setup wizard before the save action writes to the
\* sources table: the table changes only when archive_save_settings is
\* handled, by one appended row that carries everything the wizard state of
\* the saving user had accumulated (type, identity, title, filter predicate,
\* topic list).
C12_SaveWritesOnce ==
    [][sources' # sources =>
          /\ last'.op = "archive_callback"
          /\ last'.data = SaveData
          /\ Len(sources') = Len(sources) + 1
          /\ SubSeq(sources', 1, Len(sources)) = sources
          /\ last'.user \in DOMAIN archive_states
          /\ C12_Carries(sources'[Len(sources')],
                         archive_states[last'.user].source_data)
      ]_vars

\* a row saved after a numeric id, a title and an edited keyword list
C12_Witness ==
    /\ last.op = "archive_callback" /\ last.data = SaveData /\ last.outcome = "saved"
    /\ Len(sources) = 1
    /\ IsSome(sources[1].chat_id)
    /\ sources[1].filter_config.keywords # <<>>
    /\ ~sources[1].filter_config.flags["text"]

C14_TopicGroupButton == <<"archive", "source", "topic", "group">>

\* C14: in the setup wizard, the step after an accepted title is
\* request_topics exactly when the user had pressed the topic-group button
\* (archive_source_topic_group), and select_filters otherwise; and the row
\* saved after pressing that button has type topic_group and the topic list
\* the user entered.
C14_TopicGroupFlow ==
    [][/\ (/\ last'.op = "archive_input"
           /\ last'.handler = "source_title"
           /\ last'.outcome = "accepted") =>
              archive_states'[last'.user].step =
                 IF selected[last'.user] = Some(C14_TopicGroupButton)
                 THEN "request_topics" ELSE "select_filters"
       /\ (/\ last'.op = "archive_callback"
           /\ last'.outcome = "saved"
           /\ selected[last'.user] = Some(C14_TopicGroupButton)) =>
              /\ sources'[Len(sources')].type = "topic_group"
              /\ Some(sources'[Len(sources')].topics_config) =
                    archive_states[last'.user].source_data.topics
      ]_vars

\* C15: every row of sources written by the setup wizard has a numeric chat
\* id or a non-empty username; no accepted link input ("@" or "https://t.me/"
\* alone included) ends in a saved row with neither.
C15_SavedIdentity ==
    \A i \in 1..Len(sources) :
        IsSome(sources[i].chat_id) \/ sources[i].chat_username # <<>>

\* the inputs the link prompt and the title prompt refuse
C20_Refused(handler, input) ==
    LET text == Strip(input) IN
    CASE handler = "source_link" ->
            /\ ~StartsWith(text, HttpsPrefix)
            /\ ~StartsWith(text, <<"@">>)
            /\ ~(StartsWith(text, <<"-", "1", "0", "0">>) /\ IsDigit(SubSeq(text, 5, Len(text))))
      [] handler = "source_title" -> Len(text) < 3 \/ Len(text) > 100
      [] OTHER -> FALSE

\* C20: an input the link prompt refuses (no t.me link, no @username, no
\* -100<digits> id), one the title prompt refuses (length outside 3..100) and
\* one the topics prompt refuses leave the wizard state of the user (step tag
\* and accumulated fields) and every table unchanged and leave the same
\* handler registered for the chat, so that the refusal can repeat.
C20_RejectionKeepsState ==
    [][(/\ last'.op = "archive_input"
        /\ last'.handler \in {"source_link", "source_title", "topics"}
        /\ (last'.outcome = "rejected" \/ C20_Refused(last'.handler, last'.input))) =>
           /\ archive_states' = archive_states
           /\ next_step' = next_step
           /\ next_step'[last'.user] = last'.handler
           /\ sources' = sources
      ]_vars

\* the topics prompt has refused an input without a topic id and still waits
C20_Witness ==
    /\ last.op = "archive_input" /\ last.handler = "topics"
    /\ last.outcome = "rejected"
    /\ last.input = <<"x", ",">>
    /\ next_step[last.user] = "topics"
    /\ archive_states[last.user].step = "request_topics"

C13_OthersKept(user_id) ==
    \A other \in UserIds \ {user_id} :
        /\ (other \in DOMAIN archive_states') = (other \in DOMAIN archive_states)
        /\ other \in DOMAIN archive_states => archive_states'[other] = archive_states[other]
        /\ (other \in DOMAIN search_states') = (other \in DOMAIN search_states)
        /\ other \in DOMAIN search_states => search_states'[other] = search_states[other]

\* C13: a user has at most one wizard in flight: starting the archive setup
\* leaves the user without search wizard state, starting a search leaves the
\* user without archive wizard state, and neither touches the wizard state
\* of another user.
C13_OneWizardPerUser ==
    [][/\ last'.op = "start_archive_setup" =>
              /\ last'.user \notin DOMAIN search_states'
              /\ C13_OthersKept(last'.user)
       /\ last'.op = "start_search" =>
              /\ last'.user \notin DOMAIN archive_states'
              /\ C13_OthersKept(last'.user)
      ]_vars

\* the payloads the keyboards of the two wizards and of the source list carry
C17_WellFormed(data) ==
    LET rest == SubSeq(data, 3, Len(data)) IN
    \/ /\ data[1] = "archive"
       /\ \/ data[2] = "source" /\ rest \in {<<"channel">>, <<"group">>, <<"supergroup">>,
                                               <<"topic", "group">>}
          \/ data[2] = "filter" /\ rest \in {<<kind>> : kind \in Kinds \cup {"keywords"}}
          \/ data = <<"archive", "save", "settings">>
          \/ /\ data[2] \in {"view", "toggle", "delete", "edit"}
             /\ rest \in {<<id>> : id \in DOMAIN TokenInt}
    \/ /\ data[1] = "search"
       /\ \/ /\ data[2] \in {"source", "result", "page"}
             /\ rest \in {<<id>> : id \in DOMAIN TokenInt}
          \/ data[2] = "filter" /\ rest \in {<<"text">>, <<"date">>, <<"media">>,
                                               <<"sender">>, <<"topic">>}
          \/ data \in {<<"search", "execute">>, <<"search", "export">>, <<"search", "new">>}

C17_Payloads ==
    ArchiveButtons \cup MalformedArchiveData \cup SearchButtons \cup MalformedSearchData

\* C17: a callback whose payload has a known prefix and a malformed remainder
\* (a trailing id that is no number, a type or filter name no button carries,
\* an unknown action tag) is ignored: the step that handles it changes no
\* table, no wizard state and no registered next-step handler, and the
\* dispatcher keeps polling.
C17_MalformedIgnored ==
    [][\A user_id \in UserIds, data \in C17_Payloads :
          (/\ ~C17_WellFormed(data)
           /\ ArchiveCallback(user_id, data) \/ SearchCallback(user_id, data)) =>
              /\ UNCHANGED <<dbTables, backup_logs, wizards>>
              /\ process' = "polling"
      ]_vars

\* C16: an exception raised while one inbound group or channel message is
\* processed (source lookup, filter evaluation, archive write) is caught in
\* the message handler: the dispatcher keeps polling, no table changes in
\* that step, and the next inbound message can be delivered.
C16_ExceptionCaught ==
    /\ [][last'.op = "deliver_raised" =>
             /\ process' = "polling"
             /\ UNCHANGED <<dbTables, backup_logs, wizards>>
         ]_vars
    /\ [](last.op = "deliver_raised" => ENABLED Deliver)

\* after a row was archived, a delivery raised in the source lookup
C16_Witness ==
    /\ last.op = "deliver_raised"
    /\ last.stage = "lookup"
    /\ process = "polling"
    /\ archived_messages # <<>>

C18_KeepsRows ==
    /\ Len(backup_logs') >= Len(backup_logs)
    /\ SubSeq(backup_logs', 1, Len(backup_logs)) = backup_logs

C18_LoggedStatus ==
    backup_logs'[Len(backup_logs')].status =
        IF last'.written THEN "success" ELSE "failed"

C19_Fatal == last.op = "startup" /\ (~last.token \/ ~last.reachable)

\* C19: a startup-fatal condition (bot token absent, or database unreachable
\* after the bootstrap attempts) ends the process with a non-zero status
\* before polling begins, so that no event is dispatched.
C19_FatalExits ==
    C19_Fatal =>
        /\ process = "exited"
        /\ last.exit_status # None /\ last.exit_status # Some(0)
        /\ ~ENABLED Deliver

\* the part of C19 about the token: without a token the process exits with
\* a non-zero status and never polls
C19_TokenAbsentExits ==
    (last.op = "startup" /\ ~last.token) =>
        process = "exited" /\ last.exit_status = Some(1)

\* the user's wizard state holds a title, a type the column takes, and a
\* filter predicate
C21_Accumulated(user_id) ==
    /\ user_id \in DOMAIN archive_states
    /\ archive_states[user_id].source_data.chat_title # None
    /\ archive_states[user_id].source_data.type # None
    /\ archive_states[user_id].source_data.filter_config # None
    /\ archive_states[user_id].source_data.type[1] \in SourceTypes

\* the save of the user whose INSERT just failed, run again with the INSERT
\* succeeding
C21_SaveAgain ==
    /\ SaveSettingsCallback(last.user, TRUE)
    /\ last'.outcome = "saved"
    /\ Len(sources') = Len(sources) + 1

\* C21: the save action on a fully accumulated configuration inserts the
\* Source and removes the user's wizard state; when the INSERT fails no
\* Source is added and the wizard state is kept intact, and a later save by
\* the same user can still succeed.
C21_SaveOrKeep ==
    /\ [][\A user_id \in UserIds :
            (C21_Accumulated(user_id) /\ last'.op = "archive_save"
             /\ last'.user = user_id) =>
                IF last'.inserted
                THEN /\ Len(sources') = Len(sources) + 1
                     /\ SubSeq(sources', 1, Len(sources)) = sources
                     /\ sources'[Len(sources')].chat_title =
                            archive_states[user_id].source_data.chat_title[1]
                     /\ user_id \notin DOMAIN archive_states'
                ELSE /\ sources' = sources
                     /\ archive_states' = archive_states
                     /\ next_step' = next_step
         ]_vars
    /\ []((last.op = "archive_save" /\ last.outcome = "not_saved") =>
             ENABLED C21_SaveAgain)

\* a save on a fully accumulated configuration whose INSERT failed, after a
\* toggle of the photo kind: the state, toggle included, is still there
C21_FailedSave ==
    /\ last.op = "archive_save" /\ ~last.inserted /\ last.outcome = "not_saved"
    /\ C21_Accumulated(last.user)
    /\ archive_states[last.user].source_data.filter_config[1].flags["photo"] = FALSE

\* the chat identity of a source row
C22_Identity(source) == <<source.chat_id, source.chat_username>>

\* C22: when the wizard was started by editing an existing Source
\* (archive_edit_<id>), a save whose query runs updates that Source's row
\* with the edited filter configuration: the number of Source rows is the
\* same before and after, and no second Source with the same chat identity
\* is created.
C22_EditSaveUpdates ==
    [][\A user_id \in UserIds :
          (/\ user_id \in DOMAIN archive_states
           /\ archive_states[user_id].step = "edit_source"
           /\ last'.op = "archive_save" /\ last'.user = user_id
           /\ last'.inserted) =>
              LET source_id == archive_states[user_id].source_id IN
              /\ Len(sources') = Len(sources)
              /\ sources'[source_id].filter_config =
                     archive_states[user_id].source_data.filter_config[1]
              /\ \A i, j \in 1..Len(sources') :
                     (i # j /\ i = source_id) =>
                        C22_Identity(sources'[i]) # C22_Identity(sources'[j])
      ]_vars

\* the accumulated filter predicate of a user at the step select_filters
C23_Config(user_id) == archive_states[user_id].source_data.filter_config[1]

C23_Selecting(user_id) ==
    /\ user_id \in DOMAIN archive_states
    /\ archive_states[user_id].step = "select_filters"
    /\ archive_states[user_id].source_data.filter_config # None

C23_Toggled(user_id, kind) ==
    HandleFilterSelection(archive_states, next_step[user_id], sources, user_id,
                          <<"archive", "filter", kind>>)

\* C23: in select_filters a toggle of content kind k flips only k in the
\* accumulated filter predicate, leaves every other kind, the keyword list
\* and the step unchanged, and writes nothing to the sources table; two
\* consecutive toggles of the same kind restore the predicate.
C23_ToggleFlipsOne ==
    /\ [][\A user_id \in UserIds, kind \in Kinds :
            (/\ C23_Selecting(user_id)
             /\ last'.op = "archive_callback" /\ last'.user = user_id
             /\ last'.data = <<"archive", "filter", kind>>) =>
                /\ user_id \in DOMAIN archive_states'
                /\ archive_states'[user_id].step = "select_filters"
                /\ archive_states'[user_id].source_data.filter_config # None
                /\ \A other \in Kinds :
                      archive_states'[user_id].source_data.filter_config[1].flags[other]
                         = IF other = kind THEN ~C23_Config(user_id).flags[other]
                           ELSE C23_Config(user_id).flags[other]
                /\ archive_states'[user_id].source_data.filter_config[1].keywords
                      = C23_Config(user_id).keywords
                /\ [archive_states'[user_id].source_data EXCEPT !.filter_config = None]
                      = [archive_states[user_id].source_data EXCEPT !.filter_config = None]
                /\ sources' = sources
                /\ archived_messages' = archived_messages
         ]_vars
    /\ [](\A user_id \in UserIds, kind \in Kinds :
            C23_Selecting(user_id) =>
               HandleFilterSelection(C23_Toggled(user_id, kind).states,
                                     C23_Toggled(user_id, kind).next,
                                     C23_Toggled(user_id, kind).sources, user_id,
                                     <<"archive", "filter", kind>>).states
                  = archive_states)

\* the photo kind was just toggled off at select_filters while video had
\* been toggled off before and the keyword list is kept
C23_Witness ==
    /\ last.op = "archive_callback" /\ last.data = <<"archive", "filter", "photo">>
    /\ C23_Selecting(last.user)
    /\ ~C23_Config(last.user).flags["photo"]
    /\ ~C23_Config(last.user).flags["video"]
    /\ C23_Config(last.user).flags["text"]
    /\ C23_Config(last.user).keywords = <<<<"k">>>>

\* the filter set without its sender fields
C24_OtherFields(filters) == [filters EXCEPT !.sender_id = None, !.sender_name = None]

\* the ids of the rows a result list holds
C24_Ids(results) == {results[i].id : i \in 1..Len(results)}

\* C24: the sender predicate a search applies is the exact identity match
\* whenever a sender identity is present in the filter set (whatever its
\* value, 0 included, and whether or not a display name is present too); the
\* display-name substring match is applied only when no identity is present.
C24_IdentityFirst ==
    last.op = "search_messages" =>
        LET filters == last.filters
            Others(i) ==
                /\ archived_messages[i].source_id = last.source
                /\ MatchesFilters(archived_messages[i], C24_OtherFields(filters))
        IN  IF IsSome(filters.sender_id)
            THEN C24_Ids(last.results) =
                    {i \in 1..Len(archived_messages) :
                        /\ Others(i)
                        /\ archived_messages[i].sender_id = filters.sender_id[1]}
            ELSE IF IsSome(filters.sender_name)
            THEN C24_Ids(last.results) =
                    {i \in 1..Len(archived_messages) :
                        /\ Others(i)
                        /\ C6_Contains(archived_messages[i].sender_name,
                                       filters.sender_name[1])}
            ELSE C24_Ids(last.results) = {i \in 1..Len(archived_messages) : Others(i)}

\* the user is in the search wizard with a source selected
C25_Filtering(user_id) ==
    /\ user_id \in DOMAIN search_states
    /\ search_states[user_id].source_id # None

\* C25: through the search wizard a user can add each filter field to the
\* filter set.  Stated per field on the step that ends its sequence: an
\* accepted answer to the text prompt sets text, an answer to the sender
\* prompt sets the sender identity or name, and the buttons of the date,
\* media and topic keyboards set the date bounds, the content kind and the
\* topic.
C25_FieldsSettable ==
    [][\A user_id \in UserIds :
          C25_Filtering(user_id) =>
             /\ (last'.op = "text_filter" /\ last'.user = user_id /\ last'.accepted) =>
                    IsSome(search_states'[user_id].filters.text)
             /\ (last'.op = "sender_filter" /\ last'.user = user_id) =>
                    \/ IsSome(search_states'[user_id].filters.sender_id)
                    \/ IsSome(search_states'[user_id].filters.sender_name)
             /\ SearchCallback(user_id, <<"search", "date", "week">>) =>
                    \/ IsSome(search_states'[user_id].filters.date_from)
                    \/ IsSome(search_states'[user_id].filters.date_to)
             /\ SearchCallback(user_id, <<"search", "media", "photo">>) =>
                    search_states'[user_id].filters.media_type = Some("photo")
             /\ SearchCallback(user_id, <<"search", "topic", "1">>) =>
                    IsSome(search_states'[user_id].filters.topic_id)
      ]_vars

\* the callback archive_toggle_1 was just handled for the user
C26_Toggle(user_id) ==
    /\ last'.op = "archive_callback" /\ last'.user = user_id
    /\ last'.data = <<"archive", "toggle", "1">>

C26_Flipped ==
    /\ Len(sources') = Len(sources)
    /\ \A i \in 1..Len(sources) :
          sources'[i] = IF i = 1 THEN [sources[i] EXCEPT !.is_active = ~@]
                        ELSE sources[i]

\* C26: for an existing Source, handling archive_toggle_<id> flips that
\* Source's active flag and changes no other Source, whether or not the
\* calling user has a setup wizard in flight.
C26_ToggleAlways ==
    [][\A user_id \in UserIds :
          (C26_Toggle(user_id) /\ Len(sources) >= 1) => C26_Flipped
      ]_vars

\* every row of the table before the step is a row of the table after it,
\* at the same id and with the same key columns
C27_RowsKept ==
    /\ Len(sources') >= Len(sources)
    /\ \A i \in 1..Len(sources) :
          /\ sources'[i].chat_id = sources[i].chat_id
          /\ sources'[i].chat_title = sources[i].chat_title
    /\ Len(archived_messages') >= Len(archived_messages)
    /\ \A i \in 1..Len(archived_messages) :
          /\ archived_messages'[i].source_id = archived_messages[i].source_id
          /\ archived_messages'[i].message_id = archived_messages[i].message_id

\* the step handled a delete button or a step of the restore flow
C27_DeleteOrRestore ==
    \/ /\ last'.op = "archive_callback"
       /\ last'.data \in {<<"archive", "delete", "1">>,
                           <<"archive", "delete", "confirm", "1">>}
    \/ last'.op \in {"backup_restore", "restore_file", "backup_restore_answer"}

C28_UsernameOnly(source) == source.chat_id = None /\ source.chat_username # <<>>

\* C28: a Source saved with only a username never matches an inbound
\* message: no delivery is processed under it and no row is ever archived
\* under it, whatever its filters.
C28_NeverMatches ==
    \A i \in 1..Len(sources) :
        C28_UsernameOnly(sources[i]) =>
            /\ \A j \in 1..Len(archived_messages) : archived_messages[j].source_id # i
            /\ last.op = "deliver" => last.source # i

\* a message was dropped for want of a source while the active source saved
\* as @f is in the table, after a message of the other chat had been
\* archived
C28_Witness ==
    /\ Len(sources) = 2
    /\ C28_UsernameOnly(sources[2]) /\ sources[2].is_active
    /\ last.op = "deliver" /\ last.outcome = "no_source" /\ last.msg.chat_id = 2
    /\ archived_messages # <<>>

\* the rows of the table under the key of the message just delivered
C29_Rows(table) == RowsWithKey(table, last'.source, last'.msg.message_id)

\* C29: in archive_message, when a row for the (source id, message id) of
\* the delivered message already exists, no second row for that key is
\* inserted, whether the existence lookup runs or fails with a persistence
\* error.
C29_NoSecondRow ==
    [][(/\ last'.op = "deliver" /\ last'.source # 0
        /\ C29_Rows(archived_messages) # {}) =>
            Cardinality(C29_Rows(archived_messages')) =
            Cardinality(C29_Rows(archived_messages))
      ]_vars

\* C30: after any sequence of backup-interval changes made through either
\* menu, at most one job tagged 'backup' is scheduled, its period equals the
\* stored backup_interval, and no job is scheduled exactly when the stored
\* interval is 0.
C30_JobFollowsInterval ==
    LET tagged == SelectSeq(backup_jobs, LAMBDA job : job.tag = "backup") IN
    /\ Len(tagged) <= 1
    /\ (tagged = <<>>) <=> (backup_interval = 0)
    /\ tagged # <<>> => tagged[1].minutes = backup_interval

====
